---- MODULE Spec2Model ----
(***************************************************************************)
(* Model of the high-volume paper-trading engine (src/V5): the session     *)
(* ledger kept in st.session_state, the HighVolumeTradingEngine instance   *)
(* and the dashboard handlers of main.py that mutate the ledger.           *)
(*                                                                         *)
(* Numbers.  The program computes in floating point; the model computes    *)
(* the same expressions exactly, in fixed point:                           *)
(*   money   integers in units of 1/MoneyUnit dollar                       *)
(*   prices  integers in units of 1/PriceUnit dollar                       *)
(*   tokens  integers in units of 1/MoneyUnit token                        *)
(*   time    integers in units of 1/PerSecond second                       *)
(* Every division goes through ExactDiv, which has no value when the       *)
(* quotient is not an integer, so nothing is ever rounded silently.        *)
(* Percentages are compared by cross-multiplication.                       *)
(***************************************************************************)
EXTENDS Integers, Sequences, FiniteSets, TLC

VARIABLES
    equity,               \* st.session_state.equity
    daily_pnl,            \* st.session_state.daily_pnl
    active_positions,     \* st.session_state.active_positions (dict, insertion order)
    trades,               \* st.session_state.trades
    seen_tokens,          \* st.session_state.seen_tokens
    bot_running,          \* st.session_state.bot_running
    turbo_mode,           \* st.session_state.turbo_mode
    tokens_bought,        \* st.session_state.tokens_bought
    win_streak,           \* st.session_state.win_streak
    loss_streak,          \* st.session_state.loss_streak
    best_trade,           \* st.session_state.best_trade
    worst_trade,          \* st.session_state.worst_trade
    last_update,          \* st.session_state.last_update
    last_price_update,    \* st.session_state.last_price_update
    last_token_check,     \* st.session_state.last_token_check
    config,               \* HighVolumeTradingEngine.config
    module_globals,       \* the names of trading_engine.py that apply_turbo_mode rebinds
    price_history,        \* HighVolumeTradingEngine.price_history
    quick_scalp_targets,  \* HighVolumeTradingEngine.quick_scalp_targets
    now,                  \* the wall clock read by time.time() / datetime.now()
    market,               \* the quotes the price API can answer with in this run
    observed,             \* history: per open mint, the prices fed to check_exit_conditions
                          \* and the prices update_all_prices accepted
    presses,              \* history: how many dashboard buttons were pressed
    last_cycle,           \* history: what the last run_trading_cycle call did
    last_call             \* history: what the last direct call of enter_position,
                          \* close_position or apply_turbo_mode did

vars == <<equity, daily_pnl, active_positions, trades, seen_tokens, bot_running,
          turbo_mode, tokens_bought, win_streak, loss_streak, best_trade,
          worst_trade, last_update, last_price_update, last_token_check, config,
          module_globals, price_history, quick_scalp_targets, now, market,
          observed, presses, last_cycle, last_call>>

----------------------------------------------------------------------------
(* Units and exact arithmetic *)

MoneyUnit == 4 * 201 * 200 * 10
PriceUnit == 200 * 200
PerSecond == 1 + 1

ExactDiv(a, b) == CHOOSE q \in {a \div b} : q * b = a

\* x * (n / d)
Frac(x, n, d) == ExactDiv(x * n, d)

\* amount / price  and  quantity * price  (price in 1/PriceUnit dollar)
DivPrice(amount, price) == ExactDiv(amount, price) * PriceUnit
MulPrice(qty, price) == ExactDiv(qty, PriceUnit) * price

Usd(n) == n * MoneyUnit
\* a quote of k half-cents
Quote(k) == k * 200

\* Op applied to the value of e, computed once (a local variable assignment)
With(e, Op(_)) == CHOOSE r \in {Op(x) : x \in {e}} : TRUE

Max(a, b) == IF a >= b THEN a ELSE b
Min(a, b) == IF a <= b THEN a ELSE b
Abs(a) == IF a >= 0 THEN a ELSE 0 - a

RECURSIVE SeqMax(_)
SeqMax(q) == IF Len(q) = 1 THEN q[1] ELSE Max(q[1], SeqMax(Tail(q)))
RECURSIVE SeqMin(_)
SeqMin(q) == IF Len(q) = 1 THEN q[1] ELSE Min(q[1], SeqMin(Tail(q)))

\* q[-n:] and q[:n]
LastN(q, n) == IF Len(q) <= n THEN q ELSE SubSeq(q, Len(q) - n + 1, Len(q))
FirstN(q, n) == IF Len(q) <= n THEN q ELSE SubSeq(q, 1, n)

----------------------------------------------------------------------------
(* config.py *)

BASE_POSITION_SIZE == Usd(20)
MAX_POSITION_SIZE == Usd(40)
MAX_TRADE_DURATION == 600 * PerSecond
\* SLIPPAGE = 0.005 as a fraction of 1000
SLIPPAGE == 5
OnePlusSlippage(x) == Frac(x, 1000 + SLIPPAGE, 1000)
OneMinusSlippage(x) == Frac(x, 1000 - SLIPPAGE, 1000)
TRANSACTION_FEE == ExactDiv(MoneyUnit, 4)
MAX_DAILY_LOSS == Usd(0 - 150)
MIN_MARKET_CAP == 15000
MIN_LIQUIDITY == 15000
MAX_MARKET_CAP == 2000000
\* PRICE_UPDATE_INTERVAL = 1 second
PRICE_UPDATE_INTERVAL == 1 * PerSecond
\* QUALITY_FILTERS['MIN_VOLUME_TO_MCAP_RATIO'] = 3.0
MIN_VOLUME_TO_MCAP_RATIO == 3
\* PROFIT_OPTIMIZATION['scalp_exit_time'] = 120 seconds
SCALP_EXIT_TIME == 120 * PerSecond

\* MIN_PRICE_INCREASE in 1/10000 (so that MIN_PRICE_INCREASE * 100 is in
\* hundredths of a percent, the unit of a token's price_change fields);
\* SCAN_INTERVAL in clock units.
TURBO_SETTINGS ==
    [MIN_TOKEN_SCORE |-> 35, MIN_PRICE_INCREASE |-> 100, MIN_MARKET_CAP |-> 10000,
     MIN_LIQUIDITY |-> 10000, MAX_CONCURRENT_POSITIONS |-> 150,
     SCAN_INTERVAL |-> ExactDiv(PerSecond, 2), NO_CHANGE_SELL_TIME |-> 20]

NORMAL_SETTINGS ==
    [MIN_TOKEN_SCORE |-> 50, MIN_PRICE_INCREASE |-> 150, MIN_MARKET_CAP |-> 15000,
     MIN_LIQUIDITY |-> 15000, MAX_CONCURRENT_POSITIONS |-> 100,
     SCAN_INTERVAL |-> 1 * PerSecond, NO_CHANGE_SELL_TIME |-> 30]

\* the names of config.py that trading_engine.py imports (from config
\* import *) and apply_turbo_mode rebinds, with their values at import
IMPORTED_SETTINGS ==
    [MIN_TOKEN_SCORE |-> 50, MIN_PRICE_INCREASE |-> 150,
     MIN_MARKET_CAP |-> MIN_MARKET_CAP, MIN_LIQUIDITY |-> MIN_LIQUIDITY,
     MAX_CONCURRENT_POSITIONS |-> 100, SCAN_INTERVAL |-> 1 * PerSecond,
     NO_CHANGE_SELL_TIME |-> 30]

----------------------------------------------------------------------------
(* Python dict with insertion order, as a sequence of records keyed by .mint *)

Keys(d) == {d[i].mint : i \in DOMAIN d}
Has(d, m) == m \in Keys(d)
Get(d, m) == d[CHOOSE i \in DOMAIN d : d[i].mint = m]
Put(d, p) ==
    IF Has(d, p.mint)
    THEN [i \in DOMAIN d |-> IF d[i].mint = p.mint THEN p ELSE d[i]]
    ELSE Append(d, p)
Del(d, m) == SelectSeq(d, LAMBDA p : p.mint # m)

\* a dict that is never iterated, as a function; d[k] = v and del d[k]
Bind(f, k, v) == [x \in DOMAIN f \cup {k} |-> IF x = k THEN v ELSE f[x]]
Unbind(f, k) == [x \in DOMAIN f \ {k} |-> f[x]]
Empty == [x \in {} |-> 0]

----------------------------------------------------------------------------
(* Percentages, compared exactly: ((cur - entry) / entry) * 100  versus  k *)

PctGE(cur, entry, k) == (cur - entry) * 100 >= k * entry
PctGT(cur, entry, k) == (cur - entry) * 100 > k * entry
PctLE(cur, entry, k) == (cur - entry) * 100 <= k * entry

----------------------------------------------------------------------------
(* The ledger and engine fields a call may change, as one record *)

State ==
    [equity |-> equity, daily_pnl |-> daily_pnl,
     active_positions |-> active_positions, trades |-> trades,
     seen_tokens |-> seen_tokens, bot_running |-> bot_running,
     tokens_bought |-> tokens_bought, win_streak |-> win_streak,
     loss_streak |-> loss_streak, best_trade |-> best_trade,
     worst_trade |-> worst_trade, last_update |-> last_update,
     last_price_update |-> last_price_update,
     last_token_check |-> last_token_check, price_history |-> price_history,
     quick_scalp_targets |-> quick_scalp_targets, observed |-> observed,
     now |-> now]

----------------------------------------------------------------------------
(* HighVolumeTradingEngine.should_buy_token *)

\* should_buy_token without the daily loss check of lines 63-65
should_buy_token_no_loss_limit(s, token) ==
    LET mint == token.mint
        market_cap == token.market_cap
        reject == [ok |-> FALSE, s |-> s]
    IN  IF mint \in s.seen_tokens \/ Has(s.active_positions, mint) THEN reject
        ELSE IF token.score < config.MIN_TOKEN_SCORE THEN reject
        ELSE IF token.price_change_1h < config.MIN_PRICE_INCREASE
                /\ 2 * token.price_change_5m < config.MIN_PRICE_INCREASE THEN reject
        ELSE IF ~(module_globals.MIN_MARKET_CAP <= market_cap
                  /\ market_cap <= MAX_MARKET_CAP) THEN reject
        ELSE IF token.liquidity < module_globals.MIN_LIQUIDITY THEN reject
        ELSE IF (IF market_cap > 0
                 THEN token.volume_24h < MIN_VOLUME_TO_MCAP_RATIO * market_cap
                 ELSE 0 < MIN_VOLUME_TO_MCAP_RATIO) THEN reject
        ELSE [ok |-> TRUE,
              s |-> [s EXCEPT !.seen_tokens = s.seen_tokens \cup {mint}]]

\* should_buy_token looking only at seen_tokens on line 60
should_buy_token_seen_only(s, token) ==
    LET mint == token.mint
        market_cap == token.market_cap
        reject == [ok |-> FALSE, s |-> s]
    IN  IF mint \in s.seen_tokens THEN reject
        ELSE IF s.daily_pnl <= MAX_DAILY_LOSS THEN reject
        ELSE IF token.score < config.MIN_TOKEN_SCORE THEN reject
        ELSE IF token.price_change_1h < config.MIN_PRICE_INCREASE
                /\ 2 * token.price_change_5m < config.MIN_PRICE_INCREASE THEN reject
        ELSE IF ~(module_globals.MIN_MARKET_CAP <= market_cap
                  /\ market_cap <= MAX_MARKET_CAP) THEN reject
        ELSE IF token.liquidity < module_globals.MIN_LIQUIDITY THEN reject
        ELSE IF (IF market_cap > 0
                 THEN token.volume_24h < MIN_VOLUME_TO_MCAP_RATIO * market_cap
                 ELSE 0 < MIN_VOLUME_TO_MCAP_RATIO) THEN reject
        ELSE [ok |-> TRUE,
              s |-> [s EXCEPT !.seen_tokens = s.seen_tokens \cup {mint}]]

\* should_buy_token asking for momentum on both timeframes on line 79
should_buy_token_both_timeframes(s, token) ==
    LET mint == token.mint
        market_cap == token.market_cap
        reject == [ok |-> FALSE, s |-> s]
    IN  IF mint \in s.seen_tokens \/ Has(s.active_positions, mint) THEN reject
        ELSE IF s.daily_pnl <= MAX_DAILY_LOSS THEN reject
        ELSE IF token.score < config.MIN_TOKEN_SCORE THEN reject
        ELSE IF token.price_change_1h < config.MIN_PRICE_INCREASE
                \/ 2 * token.price_change_5m < config.MIN_PRICE_INCREASE THEN reject
        ELSE IF ~(module_globals.MIN_MARKET_CAP <= market_cap
                  /\ market_cap <= MAX_MARKET_CAP) THEN reject
        ELSE IF token.liquidity < module_globals.MIN_LIQUIDITY THEN reject
        ELSE IF (IF market_cap > 0
                 THEN token.volume_24h < MIN_VOLUME_TO_MCAP_RATIO * market_cap
                 ELSE 0 < MIN_VOLUME_TO_MCAP_RATIO) THEN reject
        ELSE [ok |-> TRUE,
              s |-> [s EXCEPT !.seen_tokens = s.seen_tokens \cup {mint}]]

\* should_buy_token marking the mint as seen before it applies the filters
should_buy_token_mark_first(s, token) ==
    LET mint == token.mint
        market_cap == token.market_cap
        marked == [s EXCEPT !.seen_tokens = s.seen_tokens \cup {mint}]
        reject == [ok |-> FALSE, s |-> marked]
    IN  IF mint \in s.seen_tokens \/ Has(s.active_positions, mint)
        THEN [ok |-> FALSE, s |-> s]
        ELSE IF s.daily_pnl <= MAX_DAILY_LOSS THEN reject
        ELSE IF token.score < config.MIN_TOKEN_SCORE THEN reject
        ELSE IF token.price_change_1h < config.MIN_PRICE_INCREASE
                /\ 2 * token.price_change_5m < config.MIN_PRICE_INCREASE THEN reject
        ELSE IF ~(module_globals.MIN_MARKET_CAP <= market_cap
                  /\ market_cap <= MAX_MARKET_CAP) THEN reject
        ELSE IF token.liquidity < module_globals.MIN_LIQUIDITY THEN reject
        ELSE IF (IF market_cap > 0
                 THEN token.volume_24h < MIN_VOLUME_TO_MCAP_RATIO * market_cap
                 ELSE 0 < MIN_VOLUME_TO_MCAP_RATIO) THEN reject
        ELSE [ok |-> TRUE, s |-> marked]

should_buy_token(s, token) ==
    LET mint == token.mint
        min_score == config.MIN_TOKEN_SCORE
        min_increase == config.MIN_PRICE_INCREASE
        market_cap == token.market_cap
        reject == [ok |-> FALSE, s |-> s]
    IN  IF mint \in s.seen_tokens \/ Has(s.active_positions, mint) THEN reject
        ELSE IF s.daily_pnl <= MAX_DAILY_LOSS THEN reject
        ELSE IF token.score < min_score THEN reject
        ELSE IF token.price_change_1h < min_increase
                /\ 2 * token.price_change_5m < min_increase THEN reject
        ELSE IF ~(module_globals.MIN_MARKET_CAP <= market_cap
                  /\ market_cap <= MAX_MARKET_CAP) THEN reject
        ELSE IF token.liquidity < module_globals.MIN_LIQUIDITY THEN reject
        ELSE IF (IF market_cap > 0
                 THEN token.volume_24h < MIN_VOLUME_TO_MCAP_RATIO * market_cap
                 ELSE 0 < MIN_VOLUME_TO_MCAP_RATIO) THEN reject
        ELSE [ok |-> TRUE,
              s |-> [s EXCEPT !.seen_tokens = s.seen_tokens \cup {mint}]]

(* HighVolumeTradingEngine.calculate_position_size *)

\* calculate_position_size giving the base size on line 110
calculate_position_size_low_middle(token) ==
    IF token.score >= 75 /\ token.volume_24h > 500000
    THEN Min(BASE_POSITION_SIZE * 2, MAX_POSITION_SIZE)
    ELSE IF token.score >= 60 /\ token.volume_24h > 100000
    THEN BASE_POSITION_SIZE
    ELSE IF token.score >= 50
    THEN Frac(BASE_POSITION_SIZE, 12, 10)
    ELSE BASE_POSITION_SIZE

calculate_position_size(token) ==
    IF token.score >= 75 /\ token.volume_24h > 500000
    THEN Min(BASE_POSITION_SIZE * 2, MAX_POSITION_SIZE)
    ELSE IF token.score >= 60 /\ token.volume_24h > 100000
    THEN Frac(BASE_POSITION_SIZE, 15, 10)
    ELSE IF token.score >= 50
    THEN Frac(BASE_POSITION_SIZE, 12, 10)
    ELSE BASE_POSITION_SIZE

(* HighVolumeTradingEngine._is_quick_scalp_candidate; price_change_5m > 1.0 *)

is_quick_scalp_candidate(token) ==
    /\ token.volume_24h > 200000
    /\ token.price_change_5m > 100
    /\ token.liquidity > 30000

(* HighVolumeTradingEngine.enter_position; ok is the truth value of what it
   returns (the position, or None) *)

\* enter_position debiting the net investment instead of the position size
enter_position_debit_net(s, token) ==
    IF token.price_usd <= 0 THEN [ok |-> FALSE, s |-> s]
    ELSE
    LET position_size == calculate_position_size(token)
        entry_price == OnePlusSlippage(token.price_usd)
        mint == token.mint
        is_quick_scalp == is_quick_scalp_candidate(token)
        position ==
            [mint |-> mint, token |-> token, entry_price |-> entry_price,
             entry_time |-> s.now, current_price |-> entry_price,
             position_size |-> position_size,
             tokens_bought |-> DivPrice(position_size - TRANSACTION_FEE, entry_price),
             highest_price |-> entry_price, partial_sold |-> FALSE,
             consecutive_no_change_periods |-> 0,
             trailing_stop |-> 0, is_quick_scalp |-> is_quick_scalp]
    IN  [ok |-> TRUE,
         s |-> [s EXCEPT
                  !.price_history = Bind(s.price_history, mint, <<entry_price>>),
                  !.active_positions = Put(s.active_positions, position),
                  !.equity = s.equity - (position_size - TRANSACTION_FEE),
                  !.tokens_bought = s.tokens_bought + 1,
                  !.quick_scalp_targets =
                      IF is_quick_scalp THEN Bind(s.quick_scalp_targets, mint, s.now)
                      ELSE s.quick_scalp_targets,
                  !.observed = Bind(s.observed, mint, [fed |-> {}, refreshed |-> {}])]]

enter_position(s, token) ==
    IF token.price_usd <= 0 THEN [ok |-> FALSE, s |-> s]
    ELSE
    LET position_size == calculate_position_size(token)
        entry_price == OnePlusSlippage(token.price_usd)
        mint == token.mint
        is_quick_scalp == is_quick_scalp_candidate(token)
        position ==
            [mint |-> mint, token |-> token, entry_price |-> entry_price,
             entry_time |-> s.now, current_price |-> entry_price,
             position_size |-> position_size,
             tokens_bought |-> DivPrice(position_size - TRANSACTION_FEE, entry_price),
             highest_price |-> entry_price, partial_sold |-> FALSE,
             consecutive_no_change_periods |-> 0,
             trailing_stop |-> 0, is_quick_scalp |-> is_quick_scalp]
    IN  [ok |-> TRUE,
         s |-> [s EXCEPT
                  !.price_history = Bind(s.price_history, mint, <<entry_price>>),
                  !.active_positions = Put(s.active_positions, position),
                  !.equity = s.equity - position_size,
                  !.tokens_bought = s.tokens_bought + 1,
                  !.quick_scalp_targets =
                      IF is_quick_scalp THEN Bind(s.quick_scalp_targets, mint, s.now)
                      ELSE s.quick_scalp_targets,
                  !.observed = Bind(s.observed, mint, [fed |-> {}, refreshed |-> {}])]]

----------------------------------------------------------------------------
(* HighVolumeTradingEngine.check_exit_conditions.  The position is the one
   stored under mint; the result carries the state with the position, the
   price window and (on the partial close) the ledger updated. *)

Verdict(s, position, should_exit, reason, pnl) ==
    [s |-> [s EXCEPT !.active_positions = Put(s.active_positions, position)],
     should_exit |-> should_exit, reason |-> reason, pnl |-> pnl]

\* the stagnation counter without the else branch of lines 260-261
no_change_periods_no_reset(s1, mint, position, current_price) ==
    IF mint \in DOMAIN s1.price_history
    THEN LET prices == s1.price_history[mint]
             recent_prices == IF Len(prices) >= 5 THEN LastN(prices, 5) ELSE prices
         IN  IF Len(recent_prices) > 1
             THEN IF (SeqMax(recent_prices) - SeqMin(recent_prices)) * 1000
                        < 3 * current_price
                  THEN position.consecutive_no_change_periods + 1
                  ELSE position.consecutive_no_change_periods
             ELSE position.consecutive_no_change_periods
    ELSE position.consecutive_no_change_periods

\* lines 244-261: the stagnation counter after this evaluation
no_change_periods(s1, mint, position, current_price) ==
    IF mint \in DOMAIN s1.price_history
    THEN LET prices == s1.price_history[mint]
             recent_prices == IF Len(prices) >= 5 THEN LastN(prices, 5) ELSE prices
         IN  IF Len(recent_prices) > 1
             THEN IF (SeqMax(recent_prices) - SeqMin(recent_prices)) * 1000
                        < 3 * current_price
                  THEN position.consecutive_no_change_periods + 1
                  ELSE 0
             ELSE position.consecutive_no_change_periods
    ELSE position.consecutive_no_change_periods

\* lines 244-259: the stagnation rule returns NO_CHANGE
no_change_exit(s1, mint, position, current_price) ==
    /\ mint \in DOMAIN s1.price_history
    /\ LET prices == s1.price_history[mint]
           recent_prices == IF Len(prices) >= 5 THEN LastN(prices, 5) ELSE prices
       IN  /\ Len(recent_prices) > 1
           /\ (SeqMax(recent_prices) - SeqMin(recent_prices)) * 1000 < 3 * current_price
           /\ position.consecutive_no_change_periods + 1
                >= (IF turbo_mode THEN 2 ELSE 3)

\* lines 275-282
momentum_reversal(s1, mint, position, current_price) ==
    /\ PctGT(current_price, position.entry_price, 3)
    /\ mint \in DOMAIN s1.price_history
    /\ LET recent_prices == LastN(s1.price_history[mint], 4)
       IN  /\ Len(recent_prices) >= 4
           /\ recent_prices[4] < recent_prices[3]
           /\ recent_prices[3] < recent_prices[2]
           /\ recent_prices[2] < recent_prices[1]

\* lines 284-289: the volume is read twice from the same token record
volume_decay_exit(position, time_held) ==
    LET current_volume == position.token.volume_24h
    IN  /\ current_volume > 0
        /\ time_held > 300 * PerSecond
        /\ 2 * current_volume < position.token.volume_24h

\* the bookkeeping of lines 196-205 raising the trailing stop but leaving
\* highest_price where it was
track_highest_stale(position, current_price) ==
    IF current_price > position.highest_price
    THEN [position EXCEPT
            !.trailing_stop =
                IF PctGT(current_price, position.entry_price, 20)
                THEN Frac(current_price, 92, 100)
                ELSE IF PctGT(current_price, position.entry_price, 15)
                THEN Frac(current_price, 95, 100)
                ELSE position.trailing_stop]
    ELSE position

\* the bookkeeping of lines 196-205 taking every price as the new highest
track_highest_overwrite(position, current_price) ==
    [position EXCEPT
       !.highest_price = current_price,
       !.trailing_stop =
           IF PctGT(current_price, position.entry_price, 20)
           THEN Frac(current_price, 92, 100)
           ELSE IF PctGT(current_price, position.entry_price, 15)
           THEN Frac(current_price, 95, 100)
           ELSE position.trailing_stop]

\* lines 196-205
track_highest(position, current_price) ==
    IF current_price > position.highest_price
    THEN [position EXCEPT
            !.highest_price = current_price,
            !.trailing_stop =
                IF PctGT(current_price, position.entry_price, 20)
                THEN Frac(current_price, 92, 100)
                ELSE IF PctGT(current_price, position.entry_price, 15)
                THEN Frac(current_price, 95, 100)
                ELSE position.trailing_stop]
    ELSE position

\* the P&L of lines 210-221 without the fee of line 220
exit_pnl_without_fee(position, current_price) ==
    LET position_size == IF position.partial_sold
                         THEN ExactDiv(position.position_size, 2)
                         ELSE position.position_size
        exit_price == OneMinusSlippage(current_price)
        gross_full == MulPrice(position.tokens_bought, exit_price)
        gross_value == IF position.partial_sold THEN ExactDiv(gross_full, 2)
                       ELSE gross_full
    IN  gross_value - position_size

\* lines 210-221
exit_pnl(position, current_price) ==
    LET position_size == IF position.partial_sold
                         THEN ExactDiv(position.position_size, 2)
                         ELSE position.position_size
        exit_price == OneMinusSlippage(current_price)
        gross_full == MulPrice(position.tokens_bought, exit_price)
        gross_value == IF position.partial_sold THEN ExactDiv(gross_full, 2)
                       ELSE gross_full
        net_value == gross_value - TRANSACTION_FEE
    IN  net_value - position_size

\* the partial take-profit standing aside for the hard take-profit
partial_due_below_take_profit(position, current_price) ==
    /\ ~position.partial_sold
    /\ PctGE(current_price, position.entry_price, 8)
    /\ ~PctGE(current_price, position.entry_price, 20)

\* the partial take-profit without the partial_sold test of line 235
partial_due_every_time(position, current_price) ==
    PctGE(current_price, position.entry_price, 8)

\* lines 234-242: the partial take-profit applies
partial_due(position, current_price) ==
    ~position.partial_sold /\ PctGE(current_price, position.entry_price, 8)

\* the standard exits without the timeout of lines 272-273
standard_exit_no_timeout(position, current_price, time_held) ==
    IF PctGE(current_price, position.entry_price, 20) THEN "TAKE_PROFIT_20%"
    ELSE IF PctLE(current_price, position.entry_price, 0 - 8) THEN "STOP_LOSS_8%"
    ELSE ""

\* the standard exits with the timeout tested first
standard_exit_timeout_first(position, current_price, time_held) ==
    IF time_held >= MAX_TRADE_DURATION THEN "TIMEOUT"
    ELSE IF PctGE(current_price, position.entry_price, 20) THEN "TAKE_PROFIT_20%"
    ELSE IF PctLE(current_price, position.entry_price, 0 - 8) THEN "STOP_LOSS_8%"
    ELSE ""

\* the standard exits without the stop loss of lines 270-271
standard_exit_no_stop_loss(position, current_price, time_held) ==
    IF PctGE(current_price, position.entry_price, 20) THEN "TAKE_PROFIT_20%"
    ELSE IF time_held >= MAX_TRADE_DURATION THEN "TIMEOUT"
    ELSE ""

\* lines 267-273: the reason of the standard exit that applies, "" if none
standard_exit(position, current_price, time_held) ==
    IF PctGE(current_price, position.entry_price, 20) THEN "TAKE_PROFIT_20%"
    ELSE IF PctLE(current_price, position.entry_price, 0 - 8) THEN "STOP_LOSS_8%"
    ELSE IF time_held >= MAX_TRADE_DURATION THEN "TIMEOUT"
    ELSE ""

\* lines 207-291: the rules, on the position p2 and the state s1 that lines
\* 183-205 leave
exit_rules(s1, mint, p2, current_price) ==
    LET time_held == s1.now - p2.entry_time
        position_size == p2.position_size
        pnl == exit_pnl(p2, current_price)
        scalp == p2.is_quick_scalp /\ mint \in DOMAIN s1.quick_scalp_targets
        scalp_time == s1.now - s1.quick_scalp_targets[mint]
        no_change == no_change_periods(s1, mint, p2, current_price)
        p3 == [p2 EXCEPT !.consecutive_no_change_periods = no_change]
    IN  IF scalp /\ (PctGE(current_price, p2.entry_price, 5)
                     \/ scalp_time >= SCALP_EXIT_TIME)
                 /\ PctGE(current_price, p2.entry_price, 2)
        THEN Verdict(s1, p2, TRUE, "QUICK_SCALP", pnl)
        ELSE IF scalp /\ (PctGE(current_price, p2.entry_price, 5)
                          \/ scalp_time >= SCALP_EXIT_TIME)
                      /\ scalp_time >= 120 * PerSecond
        THEN Verdict(s1, p2, TRUE, "SCALP_TIMEOUT", pnl)
        ELSE IF partial_due(p2, current_price)
        THEN LET partial_pnl == Frac(Frac(position_size, 4, 10), 8, 100)
                 sold == [p2 EXCEPT !.partial_sold = TRUE,
                                    !.tokens_bought = Frac(@, 6, 10)]
                 s2 == [s1 EXCEPT
                          !.equity = @ + Frac(position_size, 4, 10) + partial_pnl,
                          !.daily_pnl = @ + partial_pnl]
             IN  Verdict(s2, sold, FALSE, "PARTIAL_8%", partial_pnl)
        ELSE IF no_change_exit(s1, mint, p2, current_price)
        THEN Verdict(s1, p3, TRUE, "NO_CHANGE", pnl)
        ELSE IF p2.trailing_stop # 0 /\ current_price <= p2.trailing_stop
        THEN Verdict(s1, p3, TRUE, "TRAILING_STOP", pnl)
        ELSE IF standard_exit(p2, current_price, time_held) # ""
        THEN Verdict(s1, p3, TRUE, standard_exit(p2, current_price, time_held), pnl)
        ELSE IF momentum_reversal(s1, mint, p2, current_price)
        THEN Verdict(s1, p3, TRUE, "MOMENTUM_REVERSAL", pnl)
        ELSE IF volume_decay_exit(p2, time_held)
        THEN Verdict(s1, p3, TRUE, "VOLUME_DECAY", pnl)
        ELSE Verdict(s1, p3, FALSE, "HOLDING", pnl)

\* check_exit_conditions without the truncation of lines 192-194
check_exit_conditions_whole_history(s, mint, current_price) ==
    LET p0 == Get(s.active_positions, mint)
        p1 == [p0 EXCEPT !.current_price = current_price]
        s1 == [s EXCEPT
                 !.price_history =
                     IF mint \in DOMAIN s.price_history
                     THEN [s.price_history EXCEPT
                             ![mint] = Append(@, current_price)]
                     ELSE s.price_history,
                 !.observed = [s.observed EXCEPT ![mint].fed = @ \cup {current_price}]]
    IN  With([s |-> s1, position |-> track_highest(p1, current_price)],
             LAMBDA a : exit_rules(a.s, mint, a.position, current_price))

check_exit_conditions(s, mint, current_price) ==
    LET p0 == Get(s.active_positions, mint)
        p1 == [p0 EXCEPT !.current_price = current_price]
        s1 == [s EXCEPT
                 !.price_history =
                     IF mint \in DOMAIN s.price_history
                     THEN [s.price_history EXCEPT
                             ![mint] = LastN(Append(@, current_price), 20)]
                     ELSE s.price_history,
                 !.observed = [s.observed EXCEPT ![mint].fed = @ \cup {current_price}]]
    IN  With([s |-> s1, position |-> track_highest(p1, current_price)],
             LAMBDA a : exit_rules(a.s, mint, a.position, current_price))

----------------------------------------------------------------------------
(* HighVolumeTradingEngine._create_trade_record (the fields the ledger's
   consumers read) and close_position.  failed: the call raised (KeyError on
   a mint with no open position) and changed nothing. *)

create_trade_record(s, position, reason, pnl, position_size) ==
    [timestamp |-> s.now, mint_address |-> position.mint,
     entry_price |-> position.entry_price, exit_price |-> position.current_price,
     exit_reason |-> reason, pnl |-> pnl, position_size |-> position_size,
     partial_sold |-> position.partial_sold,
     entry_time |-> position.entry_time,
     token |-> position.token,
     highest_price_reached |-> position.highest_price,
     turbo_mode |-> turbo_mode, is_quick_scalp |-> position.is_quick_scalp]

\* close_position putting the record of line 303 at the head of the log
close_position_prepend(s, mint, reason, pnl) ==
    IF ~Has(s.active_positions, mint) THEN [failed |-> TRUE, s |-> s]
    ELSE
    LET position == Get(s.active_positions, mint)
        position_size == IF position.partial_sold
                         THEN Frac(position.position_size, 6, 10)
                         ELSE position.position_size
        trade == create_trade_record(s, position, reason, pnl, position_size)
    IN  [failed |-> FALSE,
         s |-> [s EXCEPT
                  !.trades = <<trade>> \o s.trades,
                  !.equity = s.equity + position_size + pnl,
                  !.daily_pnl = s.daily_pnl + pnl,
                  !.win_streak = IF pnl > 0 THEN s.win_streak + 1 ELSE 0,
                  !.loss_streak = IF pnl > 0 THEN 0 ELSE s.loss_streak + 1,
                  !.best_trade = IF pnl > 0 /\ pnl > s.best_trade THEN pnl
                                 ELSE s.best_trade,
                  !.worst_trade = IF ~(pnl > 0) /\ pnl < s.worst_trade THEN pnl
                                  ELSE s.worst_trade,
                  !.active_positions = Del(s.active_positions, mint),
                  !.price_history = Unbind(s.price_history, mint),
                  !.quick_scalp_targets = Unbind(s.quick_scalp_targets, mint),
                  !.observed = Unbind(s.observed, mint)]]

\* close_position returning quietly when the mint has no open position
close_position_silent(s, mint, reason, pnl) ==
    IF ~Has(s.active_positions, mint) THEN [failed |-> FALSE, s |-> s]
    ELSE
    LET position == Get(s.active_positions, mint)
        position_size == IF position.partial_sold
                         THEN Frac(position.position_size, 6, 10)
                         ELSE position.position_size
        trade == create_trade_record(s, position, reason, pnl, position_size)
    IN  [failed |-> FALSE,
         s |-> [s EXCEPT
                  !.trades = Append(s.trades, trade),
                  !.equity = s.equity + position_size + pnl,
                  !.daily_pnl = s.daily_pnl + pnl,
                  !.win_streak = IF pnl > 0 THEN s.win_streak + 1 ELSE 0,
                  !.loss_streak = IF pnl > 0 THEN 0 ELSE s.loss_streak + 1,
                  !.best_trade = IF pnl > 0 /\ pnl > s.best_trade THEN pnl
                                 ELSE s.best_trade,
                  !.worst_trade = IF ~(pnl > 0) /\ pnl < s.worst_trade THEN pnl
                                  ELSE s.worst_trade,
                  !.active_positions = Del(s.active_positions, mint),
                  !.price_history = Unbind(s.price_history, mint),
                  !.quick_scalp_targets = Unbind(s.quick_scalp_targets, mint),
                  !.observed = Unbind(s.observed, mint)]]

\* close_position returning the whole position_size at line 306, without the
\* reduction of lines 298-299 for a partially sold position
close_position_whole_size(s, mint, reason, pnl) ==
    IF ~Has(s.active_positions, mint) THEN [failed |-> TRUE, s |-> s]
    ELSE
    LET position == Get(s.active_positions, mint)
        position_size == position.position_size
        trade == create_trade_record(s, position, reason, pnl, position_size)
    IN  [failed |-> FALSE,
         s |-> [s EXCEPT
                  !.trades = Append(s.trades, trade),
                  !.equity = s.equity + position_size + pnl,
                  !.daily_pnl = s.daily_pnl + pnl,
                  !.win_streak = IF pnl > 0 THEN s.win_streak + 1 ELSE 0,
                  !.loss_streak = IF pnl > 0 THEN 0 ELSE s.loss_streak + 1,
                  !.best_trade = IF pnl > 0 /\ pnl > s.best_trade THEN pnl
                                 ELSE s.best_trade,
                  !.worst_trade = IF ~(pnl > 0) /\ pnl < s.worst_trade THEN pnl
                                  ELSE s.worst_trade,
                  !.active_positions = Del(s.active_positions, mint),
                  !.price_history = Unbind(s.price_history, mint),
                  !.quick_scalp_targets = Unbind(s.quick_scalp_targets, mint),
                  !.observed = Unbind(s.observed, mint)]]

\* close_position without the resets of lines 312 and 317
close_position_streaks_kept(s, mint, reason, pnl) ==
    IF ~Has(s.active_positions, mint) THEN [failed |-> TRUE, s |-> s]
    ELSE
    LET position == Get(s.active_positions, mint)
        position_size == IF position.partial_sold
                         THEN Frac(position.position_size, 6, 10)
                         ELSE position.position_size
        trade == create_trade_record(s, position, reason, pnl, position_size)
    IN  [failed |-> FALSE,
         s |-> [s EXCEPT
                  !.trades = Append(s.trades, trade),
                  !.equity = s.equity + position_size + pnl,
                  !.daily_pnl = s.daily_pnl + pnl,
                  !.win_streak = IF pnl > 0 THEN s.win_streak + 1 ELSE s.win_streak,
                  !.loss_streak = IF pnl > 0 THEN s.loss_streak ELSE s.loss_streak + 1,
                  !.best_trade = IF pnl > 0 /\ pnl > s.best_trade THEN pnl
                                 ELSE s.best_trade,
                  !.worst_trade = IF ~(pnl > 0) /\ pnl < s.worst_trade THEN pnl
                                  ELSE s.worst_trade,
                  !.active_positions = Del(s.active_positions, mint),
                  !.price_history = Unbind(s.price_history, mint),
                  !.quick_scalp_targets = Unbind(s.quick_scalp_targets, mint),
                  !.observed = Unbind(s.observed, mint)]]

close_position(s, mint, reason, pnl) ==
    IF ~Has(s.active_positions, mint) THEN [failed |-> TRUE, s |-> s]
    ELSE
    LET position == Get(s.active_positions, mint)
        position_size == IF position.partial_sold
                         THEN Frac(position.position_size, 6, 10)
                         ELSE position.position_size
        trade == create_trade_record(s, position, reason, pnl, position_size)
    IN  [failed |-> FALSE,
         s |-> [s EXCEPT
                  !.trades = Append(s.trades, trade),
                  !.equity = s.equity + position_size + pnl,
                  !.daily_pnl = s.daily_pnl + pnl,
                  !.win_streak = IF pnl > 0 THEN s.win_streak + 1 ELSE 0,
                  !.loss_streak = IF pnl > 0 THEN 0 ELSE s.loss_streak + 1,
                  !.best_trade = IF pnl > 0 /\ pnl > s.best_trade THEN pnl
                                 ELSE s.best_trade,
                  !.worst_trade = IF ~(pnl > 0) /\ pnl < s.worst_trade THEN pnl
                                  ELSE s.worst_trade,
                  !.active_positions = Del(s.active_positions, mint),
                  !.price_history = Unbind(s.price_history, mint),
                  !.quick_scalp_targets = Unbind(s.quick_scalp_targets, mint),
                  !.observed = Unbind(s.observed, mint)]]

----------------------------------------------------------------------------
(* MultiMarketplaceFetcher.get_current_price: the price the API answered
   with, and the token's scan price when the request failed or carried no
   positive price (api = 0) *)

get_current_price(token, api) ==
    IF api > 0 THEN api ELSE token.price_usd

\* update_all_prices marking the ledger to market: the unrealized gain of
\* the accepted price over the previous one is added to daily_pnl
update_position_price_mark_to_market(s, mint, api) ==
    LET position == Get(s.active_positions, mint)
        new_price == get_current_price(position.token, api)
        current_price == position.current_price
    IN  IF new_price > 0 /\ Abs(new_price - current_price) * 10 < 7 * current_price
        THEN [s EXCEPT
                !.active_positions =
                    Put(s.active_positions,
                        [position EXCEPT
                           !.current_price = new_price,
                           !.highest_price = Max(new_price, position.highest_price)]),
                !.daily_pnl = @ + MulPrice(position.tokens_bought,
                                           new_price - current_price),
                !.observed = [s.observed EXCEPT ![mint].refreshed = @ \cup {new_price}]]
        ELSE s

(* HighVolumeTradingEngine.update_all_prices; api[mint] is the API's answer
   for the request made for that position *)

update_position_price(s, mint, api) ==
    LET position == Get(s.active_positions, mint)
        new_price == get_current_price(position.token, api)
        current_price == position.current_price
    IN  IF new_price > 0 /\ Abs(new_price - current_price) * 10 < 7 * current_price
        THEN [s EXCEPT
                !.active_positions =
                    Put(s.active_positions,
                        [position EXCEPT
                           !.current_price = new_price,
                           !.highest_price = Max(new_price, position.highest_price)]),
                !.observed = [s.observed EXCEPT ![mint].refreshed = @ \cup {new_price}]]
        ELSE s

RECURSIVE update_prices_loop(_, _, _)
update_prices_loop(s, mints, api) ==
    IF mints = <<>> THEN s
    ELSE With(update_position_price(s, Head(mints), api[Head(mints)]),
              LAMBDA s1 : update_prices_loop(s1, Tail(mints), api))

MintsOf(d) == [i \in DOMAIN d |-> d[i].mint]

update_all_prices(s, api) ==
    IF s.active_positions = <<>> THEN s
    ELSE update_prices_loop(s, MintsOf(s.active_positions), api)

----------------------------------------------------------------------------
(* HighVolumeTradingEngine.run_trading_cycle.  A cycle's result is the state
   and the log of what it did: the verdicts of the exit loop (lines 413-423),
   the closes (425-429) and the scan's decisions (444-457). *)

RECURSIVE exit_loop(_, _, _, _)
\* the exit loop of lines 415-423 without the try/except around a position:
\* the first request that fails ends the loop
exit_loop_stop_on_failure(s, mints, api, evals) ==
    IF mints = <<>> THEN [s |-> s, evals |-> evals]
    ELSE LET mint == Head(mints)
             position == Get(s.active_positions, mint)
             current_price == get_current_price(position.token, api[mint])
             verdict(v) ==
                 [s |-> v.s,
                  evals |-> Append(evals,
                                   [mint |-> mint, price |-> current_price,
                                    should_exit |-> v.should_exit,
                                    reason |-> v.reason, pnl |-> v.pnl,
                                    before |-> position,
                                    after |-> Get(v.s.active_positions, mint),
                                    open |-> Keys(s.active_positions),
                                    scalp |-> position.is_quick_scalp
                                        /\ mint \in DOMAIN s.quick_scalp_targets,
                                    time_held |-> s.now - position.entry_time,
                                    credit |-> v.s.equity - s.equity,
                                    realized |-> v.s.daily_pnl - s.daily_pnl])]
         IN  IF api[mint] > 0
             THEN With(With(check_exit_conditions(s, mint, current_price), verdict),
                       LAMBDA a : exit_loop(a.s, Tail(mints), api, a.evals))
             ELSE [s |-> s, evals |-> evals]

exit_loop(s, mints, api, evals) ==
    IF mints = <<>> THEN [s |-> s, evals |-> evals]
    ELSE LET mint == Head(mints)
             position == Get(s.active_positions, mint)
             current_price == get_current_price(position.token, api[mint])
             verdict(v) ==
                 [s |-> v.s,
                  evals |-> Append(evals,
                                   [mint |-> mint, price |-> current_price,
                                    should_exit |-> v.should_exit,
                                    reason |-> v.reason, pnl |-> v.pnl,
                                    before |-> position,
                                    after |-> Get(v.s.active_positions, mint),
                                    open |-> Keys(s.active_positions),
                                    scalp |-> position.is_quick_scalp
                                        /\ mint \in DOMAIN s.quick_scalp_targets,
                                    time_held |-> s.now - position.entry_time,
                                    credit |-> v.s.equity - s.equity,
                                    realized |-> v.s.daily_pnl - s.daily_pnl])]
         IN  IF current_price > 0
             THEN With(With(check_exit_conditions(s, mint, current_price), verdict),
                       LAMBDA a : exit_loop(a.s, Tail(mints), api, a.evals))
             ELSE exit_loop(s, Tail(mints), api, evals)

RECURSIVE close_loop(_, _, _)
close_loop(s, evals, closes) ==
    IF evals = <<>> THEN [s |-> s, closes |-> closes]
    ELSE LET e == Head(evals)
             closed(c) ==
                 [s |-> c.s,
                  closes |-> IF c.failed THEN closes
                             ELSE Append(closes,
                                         [mint |-> e.mint, reason |-> e.reason,
                                          pnl |-> e.pnl,
                                          position |-> Get(s.active_positions, e.mint),
                                          open |-> Keys(s.active_positions),
                                          credit |-> c.s.equity - s.equity,
                                          realized |-> c.s.daily_pnl - s.daily_pnl])]
         IN  IF e.should_exit
             THEN With(With(close_position(s, e.mint, e.reason, e.pnl), closed),
                       LAMBDA a : close_loop(a.s, Tail(evals), a.closes))
             ELSE close_loop(s, Tail(evals), closes)

RECURSIVE scan_loop(_, _, _, _)
\* the scan without the equity test of lines 449-450
scan_loop_no_equity_test(s, tokens, bought_this_cycle, scans) ==
    IF tokens = <<>> THEN [s |-> s, scans |-> scans]
    ELSE
    LET token == Head(tokens)
        position_size == calculate_position_size(token)
        \* lines 455-457
        decide(b) == IF b.ok
                     THEN [accepted |-> TRUE, b |-> b.s,
                           e |-> enter_position(b.s, token)]
                     ELSE [accepted |-> FALSE, b |-> b.s,
                           e |-> [ok |-> FALSE, s |-> b.s]]
        decided(d) ==
            [s |-> d.e.s,
             bought |-> IF d.e.ok THEN bought_this_cycle + 1 ELSE bought_this_cycle,
             scans |-> Append(scans,
                              [mint |-> token.mint, accepted |-> d.accepted,
                               entered |-> d.e.ok,
                               was_open |-> Has(s.active_positions, token.mint),
                               open |-> Keys(s.active_positions),
                               was_seen |-> token.mint \in s.seen_tokens,
                               daily_pnl |-> s.daily_pnl, token |-> token,
                               equity |-> s.equity,
                               size |-> position_size,
                               profile |-> config, globals |-> module_globals,
                               seen_added |-> d.b.seen_tokens \ s.seen_tokens,
                               others_kept |->
                                   [d.b EXCEPT !.seen_tokens = s.seen_tokens] = s,
                               debit |-> s.equity - d.e.s.equity,
                               counted |-> d.e.s.tokens_bought - s.tokens_bought,
                               opened |-> Len(d.e.s.active_positions)
                                            - Len(s.active_positions),
                               position |-> IF Has(d.e.s.active_positions, token.mint)
                                            THEN Get(d.e.s.active_positions, token.mint)
                                            ELSE [mint |-> ""]])]
    IN  IF Len(s.active_positions) >= config.MAX_CONCURRENT_POSITIONS
        THEN [s |-> s, scans |-> scans]
        ELSE IF bought_this_cycle >= 8
        THEN [s |-> s, scans |-> scans]
        ELSE With(With(With(should_buy_token(s, token), decide), decided),
                  LAMBDA a : scan_loop(a.s, Tail(tokens), a.bought, a.scans))

\* the scan without the position-count test of lines 445-446
scan_loop_no_position_cap(s, tokens, bought_this_cycle, scans) ==
    IF tokens = <<>> THEN [s |-> s, scans |-> scans]
    ELSE
    LET token == Head(tokens)
        position_size == calculate_position_size(token)
        \* lines 455-457
        decide(b) == IF b.ok
                     THEN [accepted |-> TRUE, b |-> b.s,
                           e |-> enter_position(b.s, token)]
                     ELSE [accepted |-> FALSE, b |-> b.s,
                           e |-> [ok |-> FALSE, s |-> b.s]]
        decided(d) ==
            [s |-> d.e.s,
             bought |-> IF d.e.ok THEN bought_this_cycle + 1 ELSE bought_this_cycle,
             scans |-> Append(scans,
                              [mint |-> token.mint, accepted |-> d.accepted,
                               entered |-> d.e.ok,
                               was_open |-> Has(s.active_positions, token.mint),
                               open |-> Keys(s.active_positions),
                               was_seen |-> token.mint \in s.seen_tokens,
                               daily_pnl |-> s.daily_pnl, token |-> token,
                               equity |-> s.equity,
                               size |-> position_size,
                               profile |-> config, globals |-> module_globals,
                               seen_added |-> d.b.seen_tokens \ s.seen_tokens,
                               others_kept |->
                                   [d.b EXCEPT !.seen_tokens = s.seen_tokens] = s,
                               debit |-> s.equity - d.e.s.equity,
                               counted |-> d.e.s.tokens_bought - s.tokens_bought,
                               opened |-> Len(d.e.s.active_positions)
                                            - Len(s.active_positions),
                               position |-> IF Has(d.e.s.active_positions, token.mint)
                                            THEN Get(d.e.s.active_positions, token.mint)
                                            ELSE [mint |-> ""]])]
    IN  IF s.equity < position_size
        THEN scan_loop(s, Tail(tokens), bought_this_cycle, scans)
        ELSE IF bought_this_cycle >= 8
        THEN [s |-> s, scans |-> scans]
        ELSE With(With(With(should_buy_token(s, token), decide), decided),
                  LAMBDA a : scan_loop(a.s, Tail(tokens), a.bought, a.scans))

scan_loop(s, tokens, bought_this_cycle, scans) ==
    IF tokens = <<>> THEN [s |-> s, scans |-> scans]
    ELSE
    LET token == Head(tokens)
        position_size == calculate_position_size(token)
        \* lines 455-457
        decide(b) == IF b.ok
                     THEN [accepted |-> TRUE, b |-> b.s,
                           e |-> enter_position(b.s, token)]
                     ELSE [accepted |-> FALSE, b |-> b.s,
                           e |-> [ok |-> FALSE, s |-> b.s]]
        decided(d) ==
            [s |-> d.e.s,
             bought |-> IF d.e.ok THEN bought_this_cycle + 1 ELSE bought_this_cycle,
             scans |-> Append(scans,
                              [mint |-> token.mint, accepted |-> d.accepted,
                               entered |-> d.e.ok,
                               was_open |-> Has(s.active_positions, token.mint),
                               open |-> Keys(s.active_positions),
                               was_seen |-> token.mint \in s.seen_tokens,
                               daily_pnl |-> s.daily_pnl, token |-> token,
                               equity |-> s.equity,
                               size |-> position_size,
                               profile |-> config, globals |-> module_globals,
                               seen_added |-> d.b.seen_tokens \ s.seen_tokens,
                               others_kept |->
                                   [d.b EXCEPT !.seen_tokens = s.seen_tokens] = s,
                               debit |-> s.equity - d.e.s.equity,
                               counted |-> d.e.s.tokens_bought - s.tokens_bought,
                               opened |-> Len(d.e.s.active_positions)
                                            - Len(s.active_positions),
                               position |-> IF Has(d.e.s.active_positions, token.mint)
                                            THEN Get(d.e.s.active_positions, token.mint)
                                            ELSE [mint |-> ""]])]
    IN  IF Len(s.active_positions) >= config.MAX_CONCURRENT_POSITIONS
        THEN [s |-> s, scans |-> scans]
        ELSE IF s.equity < position_size
        THEN scan_loop(s, Tail(tokens), bought_this_cycle, scans)
        ELSE IF bought_this_cycle >= 8
        THEN [s |-> s, scans |-> scans]
        ELSE With(With(With(should_buy_token(s, token), decide), decided),
                  LAMBDA a : scan_loop(a.s, Tail(tokens), a.bought, a.scans))

\* lines 461-463: which 400 entries survive is the set's iteration order
trim_seen_tokens(seen) ==
    IF Cardinality(seen) > 800
    THEN CHOOSE kept \in SUBSET seen : Cardinality(kept) = 400
    ELSE seen

Idle(s) == [s |-> s, ran |-> FALSE, evals |-> <<>>, closes |-> <<>>, scans |-> <<>>]

\* lines 431-463: the scan, on the state the closes leave
scan_tokens(s3, tokens, current_time) ==
    IF current_time - s3.last_token_check >= config.SCAN_INTERVAL
    THEN IF s3.equity >= BASE_POSITION_SIZE
         THEN With(scan_loop([s3 EXCEPT !.last_token_check = current_time],
                             FirstN(tokens, 20), 0, <<>>),
                   LAMBDA y : [s |-> [y.s EXCEPT !.seen_tokens = trim_seen_tokens(@)],
                               scans |-> y.scans])
         ELSE [s |-> [s3 EXCEPT !.last_token_check = current_time], scans |-> <<>>]
    ELSE [s |-> s3, scans |-> <<>>]

\* run_trading_cycle with the scan of lines 431-463 moved before the exit
\* loop of lines 413-423
run_trading_cycle_scan_first(s, api_update, api_exit, tokens) ==
    IF ~s.bot_running THEN Idle(s)
    ELSE IF s.daily_pnl <= MAX_DAILY_LOSS
    THEN Idle([s EXCEPT !.bot_running = FALSE])
    ELSE IF (s.now - s.last_update) * 10 < 2 * PerSecond THEN Idle(s)
    ELSE
    LET current_time == s.now
        s1 == [s EXCEPT !.last_update = current_time]
        s2 == IF current_time - s1.last_price_update >= PRICE_UPDATE_INTERVAL
              THEN update_all_prices([s1 EXCEPT !.last_price_update = current_time],
                                     api_update)
              ELSE s1
        quote(m) == IF m \in DOMAIN api_exit THEN api_exit[m] ELSE 0
        scan(priced) == scan_tokens(priced, tokens, current_time)
        exits(y) == [scans |-> y.scans,
                     x |-> exit_loop(y.s, MintsOf(y.s.active_positions),
                                     [m \in Keys(y.s.active_positions) |-> quote(m)],
                                     <<>>)]
        closes(e) == [scans |-> e.scans, evals |-> e.x.evals,
                      z |-> close_loop(e.x.s, e.x.evals, <<>>)]
    IN  With(With(With(With(s2, scan), exits), closes),
             LAMBDA r : [s |-> r.z.s, ran |-> TRUE, evals |-> r.evals,
                         closes |-> r.z.closes, scans |-> r.scans])

run_trading_cycle(s, api_update, api_exit, tokens) ==
    IF ~s.bot_running THEN Idle(s)
    ELSE IF s.daily_pnl <= MAX_DAILY_LOSS
    THEN Idle([s EXCEPT !.bot_running = FALSE])
    ELSE IF (s.now - s.last_update) * 10 < 2 * PerSecond THEN Idle(s)
    ELSE
    LET current_time == s.now
        s1 == [s EXCEPT !.last_update = current_time]
        s2 == IF current_time - s1.last_price_update >= PRICE_UPDATE_INTERVAL
              THEN update_all_prices([s1 EXCEPT !.last_price_update = current_time],
                                     api_update)
              ELSE s1
        exits(priced) == exit_loop(priced, MintsOf(priced.active_positions), api_exit, <<>>)
        closes(x) == [evals |-> x.evals, z |-> close_loop(x.s, x.evals, <<>>)]
        scan(c) == [evals |-> c.evals, closes |-> c.z.closes,
                    y |-> scan_tokens(c.z.s, tokens, current_time)]
    IN  With(With(With(With(s2, exits), closes), scan),
             LAMBDA r : [s |-> r.y.s, ran |-> TRUE, evals |-> r.evals,
                         closes |-> r.closes, scans |-> r.y.scans])

----------------------------------------------------------------------------
(* The environment: the token lists the marketplaces return, the answers of
   the price API, and the time between two cycles *)

MaxTime == 4
MaxExitTime == 5
MaxRebuys == 1
MaxPresses == 2
MaxCrowdPresses == 3
LongWait == 600 * PerSecond

\* a token that passes every entry filter in the normal profile
Token(mint, price_usd, score, volume_24h, price_change_5m, liquidity) ==
    [mint |-> mint, price_usd |-> price_usd, score |-> score,
     volume_24h |-> volume_24h, price_change_1h |-> 200,
     price_change_5m |-> price_change_5m, market_cap |-> 40000,
     liquidity |-> liquidity]

\* top size (score >= 75, volume > 500k); "A" is a quick-scalp candidate;
\* "G" trades at 2.00, the others at 1.00
Top(mint) == Token(mint, IF mint = "G" THEN Quote(400) ELSE Quote(200), 80, 600000,
                   IF mint = "A" THEN 150 ELSE 50,
                   IF mint = "A" THEN 40000 ELSE 20000)
\* the 1.2x size, no quick scalp
Mid(mint) == Token(mint, Quote(200), 55, 150000, 0, 20000)

\* A run's market: feeds, the lists fetch_all_tokens returns (sorted by score
\* and volume); quotes, per token the API's answers in the exit loop; refresh,
\* its answers in update_all_prices.  0 is a failed request.
Mints == {"A", "B", "C", "D", "E", "F", "G", "K"}

Markets ==
    { \* a crash: four top-size positions lose nearly everything
      [feeds |-> {<<Top("A"), Top("B"), Top("D"), Top("E"), Top("F")>>,
                  <<Top("G")>>},
       quotes |-> [m \in Mints |-> IF m \in {"F", "G"} THEN {0} ELSE {Quote(1)}],
       refresh |-> [m \in Mints |-> {0}]],
      \* a rally
      [feeds |-> {<<Top("A"), Mid("C")>>},
       quotes |-> [m \in Mints |-> IF m = "A" THEN {Quote(220), Quote(252)}
                                   ELSE {Quote(220), Quote(240), Quote(252), Quote(280)}],
       refresh |-> [m \in Mints |-> IF m = "A" THEN {0} ELSE {0, Quote(252)}]],
      \* a flat and falling market
      [feeds |-> {<<Top("A"), Mid("C")>>},
       quotes |-> [m \in Mints |-> IF m = "A" THEN {Quote(201), 0}
                                   ELSE {Quote(184), Quote(201), 0}],
       refresh |-> [m \in Mints |-> {0}]] }

\* Markets in which one middle-size position is followed through a longer
\* run of quotes: a slide from +12% (the partial sale comes first), a climb
\* through the 15% and 20% bands of the trailing stop, and a market of two
\* tokens listed one at a time, one of them falling
ExitMarkets ==
    { [feeds |-> {<<Mid("C")>>},
       quotes |-> [m \in Mints |-> {Quote(225), Quote(224), Quote(223), Quote(222)}],
       refresh |-> [m \in Mints |-> {0}]],
      [feeds |-> {<<Mid("C")>>},
       quotes |-> [m \in Mints |-> {Quote(240), Quote(244)}],
       refresh |-> [m \in Mints |-> {0}]],
      [feeds |-> {<<Mid("C")>>, <<Mid("D")>>},
       quotes |-> [m \in Mints |-> IF m = "C" THEN {Quote(184)} ELSE {Quote(201)}],
       refresh |-> [m \in Mints |-> {0}]] }

\* One candidate "K" as the marketplaces may describe it.  A base candidate
\* that passes every entry filter of both profiles, varied in score and
\* volume, in momentum, in liquidity, in market cap and in price.
Candidate(price_usd, score, volume_24h, change_1h, change_5m, liquidity, market_cap) ==
    [mint |-> "K", price_usd |-> price_usd, score |-> score,
     volume_24h |-> volume_24h, price_change_1h |-> change_1h,
     price_change_5m |-> change_5m, market_cap |-> market_cap,
     liquidity |-> liquidity]

Scores == {40, 50, 59, 60, 74, 75, 80}
Volumes == {50000, 100000, 100001, 500000, 500001}
\* <<price_change_1h, price_change_5m>> in hundredths of a percent
Momenta == {<<150, 0>>, <<149, 75>>, <<149, 74>>, <<0, 75>>, <<0, 74>>,
            <<100, 0>>, <<99, 50>>, <<99, 49>>, <<0, 50>>}
Liquidities == {15000, 14999, 10000, 9999}
\* with a volume of 600000 a market cap of 200000 is the largest that keeps
\* the volume at MIN_VOLUME_TO_MCAP_RATIO times the market cap
MarketCaps == {14999, 10000, 200000, 200001}

Candidates ==
    {Candidate(Quote(200), sc, v, 200, 0, 20000, 15000) : sc \in Scores, v \in Volumes}
    \cup {Candidate(Quote(200), 80, 600000, mo[1], mo[2], 20000, 15000) : mo \in Momenta}
    \cup {Candidate(Quote(200), 80, 600000, 200, 0, l, 15000) : l \in Liquidities}
    \cup {Candidate(Quote(200), 80, 600000, 200, 0, 20000, mc) : mc \in MarketCaps}
    \cup {Candidate(0, 80, 600000, 200, 0, 20000, 15000)}

\* a run in which the marketplaces list one candidate and the price API
\* answers no request (get_current_price falls back to the scan price)
CandidateMarkets ==
    {[feeds |-> {<<t>>}, quotes |-> [m \in Mints |-> {0}],
      refresh |-> [m \in Mints |-> {0}]] : t \in Candidates}

\* the API's answers to one request per open position
Answers(per_token) ==
    {api \in [Keys(active_positions) -> UNION {per_token[m] : m \in Keys(active_positions)}] :
        \A m \in Keys(active_positions) : api[m] \in per_token[m]}

Delays == {0, 1, 2, LongWait}

\* what fetch_all_tokens may return now: nothing, or one of the market's lists
\* (a run opens each listed token once, and MaxRebuys positions more)
Listed == UNION {{f[i].mint : i \in DOMAIN f} : f \in market.feeds}
Feeds ==
    {<<>>} \cup {f \in market.feeds :
                    tokens_bought + Len(f) <= Cardinality(Listed) + MaxRebuys}

----------------------------------------------------------------------------
(* main.py: init_session_state and the construction of the engine *)

\* no direct call was made yet
NoCall ==
    [op |-> "", mint |-> "", was_open |-> FALSE, raised |-> FALSE,
     returned |-> FALSE, unchanged |-> TRUE, kept |-> TRUE, debit |-> 0,
     counted |-> 0, appended |-> 0]

Init ==
    /\ equity = Usd(1000)
    /\ daily_pnl = 0
    /\ active_positions = <<>>
    /\ trades = <<>>
    /\ seen_tokens = {}
    /\ bot_running = FALSE
    /\ turbo_mode = FALSE
    /\ tokens_bought = 0
    /\ win_streak = 0
    /\ loss_streak = 0
    /\ best_trade = 0
    /\ worst_trade = 0
    /\ last_update = 0
    /\ last_price_update = 0
    /\ last_token_check = 0
    /\ config = NORMAL_SETTINGS
    /\ module_globals = IMPORTED_SETTINGS
    /\ price_history = Empty
    /\ quick_scalp_targets = Empty
    /\ now = 0
    /\ market \in Markets
    /\ observed = Empty
    /\ presses = 0
    /\ last_cycle = [ran |-> FALSE, evals |-> <<>>, closes |-> <<>>, scans |-> <<>>,
                     refresh |-> Empty, quotes |-> Empty]
    /\ last_call = NoCall

\* the same start, in a run of one candidate
InitCandidate ==
    /\ equity = Usd(1000)
    /\ daily_pnl = 0
    /\ active_positions = <<>>
    /\ trades = <<>>
    /\ seen_tokens = {}
    /\ bot_running = FALSE
    /\ turbo_mode = FALSE
    /\ tokens_bought = 0
    /\ win_streak = 0
    /\ loss_streak = 0
    /\ best_trade = 0
    /\ worst_trade = 0
    /\ last_update = 0
    /\ last_price_update = 0
    /\ last_token_check = 0
    /\ config = NORMAL_SETTINGS
    /\ module_globals = IMPORTED_SETTINGS
    /\ price_history = Empty
    /\ quick_scalp_targets = Empty
    /\ now = 0
    /\ market \in CandidateMarkets
    /\ observed = Empty
    /\ presses = 0
    /\ last_cycle = [ran |-> FALSE, evals |-> <<>>, closes |-> <<>>, scans |-> <<>>,
                     refresh |-> Empty, quotes |-> Empty]
    /\ last_call = NoCall

Install(s) ==
    /\ equity' = s.equity
    /\ daily_pnl' = s.daily_pnl
    /\ active_positions' = s.active_positions
    /\ trades' = s.trades
    /\ seen_tokens' = s.seen_tokens
    /\ bot_running' = s.bot_running
    /\ tokens_bought' = s.tokens_bought
    /\ win_streak' = s.win_streak
    /\ loss_streak' = s.loss_streak
    /\ best_trade' = s.best_trade
    /\ worst_trade' = s.worst_trade
    /\ last_update' = s.last_update
    /\ last_price_update' = s.last_price_update
    /\ last_token_check' = s.last_token_check
    /\ price_history' = s.price_history
    /\ quick_scalp_targets' = s.quick_scalp_targets
    /\ observed' = s.observed
    /\ now' = s.now

\* how long after the start, and after the long wait, the run is followed
Horizon ==
    IF "horizon" \in DOMAIN market THEN market.horizon
    ELSE IF market \in ExitMarkets THEN MaxExitTime ELSE MaxTime
ClockOK(t) == t % LongWait <= Horizon /\ t <= LongWait + Horizon

\* main.py run_improved_bot: one call of run_trading_cycle, some time after
\* the previous one
RunTradingCycle ==
    /\ \E d \in Delays :
       /\ ClockOK(now + d)
       /\ \E api_update \in Answers(market.refresh),
             api_exit \in Answers(market.quotes),
             tokens \in Feeds,
             s \in {[State EXCEPT !.now = now + d]} :
            \E r \in {run_trading_cycle(s, api_update, api_exit, tokens)} :
                /\ Install(r.s)
                /\ last_cycle' = IF r.ran
                                 THEN [ran |-> TRUE, evals |-> r.evals,
                                       closes |-> r.closes, scans |-> r.scans,
                                       refresh |-> api_update, quotes |-> api_exit]
                                 ELSE last_cycle
    /\ UNCHANGED <<turbo_mode, config, module_globals, market, presses, last_call>>

\* the operator presses a button
Press ==
    /\ presses < (IF "horizon" \in DOMAIN market THEN MaxCrowdPresses ELSE MaxPresses)
    /\ presses' = presses + 1

\* main.py lines 130-134: START / PAUSE
StartPause ==
    /\ Press
    /\ bot_running' = ~bot_running
    /\ UNCHANGED <<equity, daily_pnl, active_positions, trades, seen_tokens,
                   turbo_mode, tokens_bought, win_streak, loss_streak,
                   best_trade, worst_trade, last_update, last_price_update,
                   last_token_check, config, module_globals, price_history,
                   quick_scalp_targets, now, market, observed, last_cycle,
                   last_call>>

\* main.py lines 177-179: CLEAR SEEN
ClearSeen ==
    /\ Press
    /\ seen_tokens # {}
    /\ seen_tokens' = {}
    /\ UNCHANGED <<equity, daily_pnl, active_positions, trades, bot_running,
                   turbo_mode, tokens_bought, win_streak, loss_streak,
                   best_trade, worst_trade, last_update, last_price_update,
                   last_token_check, config, module_globals, price_history,
                   quick_scalp_targets, now, market, observed, last_cycle,
                   last_call>>

\* apply_turbo_mode that writes into the engine's dict the keys of the new
\* profile that gate entries and leaves the others as they were
apply_turbo_mode_update(engine, enabled) ==
    LET profile == IF enabled THEN TURBO_SETTINGS ELSE NORMAL_SETTINGS
    IN  [config |-> [engine.config EXCEPT
                        !.MIN_TOKEN_SCORE = profile.MIN_TOKEN_SCORE,
                        !.MIN_PRICE_INCREASE = profile.MIN_PRICE_INCREASE,
                        !.MIN_MARKET_CAP = profile.MIN_MARKET_CAP,
                        !.MIN_LIQUIDITY = profile.MIN_LIQUIDITY],
         globals |-> [k \in DOMAIN engine.globals |->
                         IF k \in DOMAIN profile THEN profile[k] ELSE engine.globals[k]]]

\* HighVolumeTradingEngine.apply_turbo_mode (trading_engine.py lines 44-53):
\* self.config becomes a copy of the profile, and every key of the profile
\* is rebound in the module's globals
apply_turbo_mode(engine, enabled) ==
    LET profile == IF enabled THEN TURBO_SETTINGS ELSE NORMAL_SETTINGS
    IN  [config |-> profile,
         globals |-> [k \in DOMAIN engine.globals |->
                         IF k \in DOMAIN profile THEN profile[k] ELSE engine.globals[k]]]

\* main.py lines 136-141: TURBO MODE / NORMAL MODE
ToggleTurbo ==
    /\ Press
    /\ turbo_mode' = ~turbo_mode
    /\ \E r \in {apply_turbo_mode([config |-> config, globals |-> module_globals],
                                   turbo_mode')} :
          /\ config' = r.config
          /\ module_globals' = r.globals
    /\ last_call' = [NoCall EXCEPT !.op = "apply_turbo_mode", !.returned = turbo_mode']
    /\ UNCHANGED <<equity, daily_pnl, active_positions, trades, seen_tokens,
                   bot_running, tokens_bought, win_streak, loss_streak,
                   best_trade, worst_trade, last_update, last_price_update,
                   last_token_check, price_history, quick_scalp_targets, now,
                   market, observed, last_cycle>>

\* main.py lines 148-170: RESET BOT
ResetBot ==
    /\ Press
    /\ equity' = Usd(1000)
    /\ trades' = <<>>
    /\ active_positions' = <<>>
    /\ seen_tokens' = {}
    /\ tokens_bought' = 0
    /\ daily_pnl' = 0
    /\ win_streak' = 0
    /\ loss_streak' = 0
    /\ best_trade' = 0
    /\ worst_trade' = 0
    /\ observed' = Empty
    /\ UNCHANGED <<bot_running, turbo_mode, last_update, last_price_update,
                   last_token_check, config, module_globals, price_history,
                   quick_scalp_targets, now, market, last_cycle, last_call>>

\* main.py line 70 with __init__ (trading_engine.py lines 39-42): a rerun of
\* the script builds a new engine; the module's globals stay as they are
NewEngine ==
    /\ config' = NORMAL_SETTINGS
    /\ price_history' = Empty
    /\ quick_scalp_targets' = Empty
    /\ UNCHANGED <<equity, daily_pnl, active_positions, trades, seen_tokens,
                   bot_running, turbo_mode, tokens_bought, win_streak,
                   loss_streak, best_trade, worst_trade, last_update,
                   last_price_update, last_token_check, module_globals, now,
                   market, observed, presses, last_cycle, last_call>>

Next ==
    \/ RunTradingCycle
    \/ StartPause
    \/ ClearSeen
    \/ ToggleTurbo
    \/ ResetBot
    \/ NewEngine

Spec == Init /\ [][Next]_vars

----------------------------------------------------------------------------
(* The engine driven by a caller that also calls enter_position and
   close_position itself, as their signatures allow, whatever the ledger
   holds *)

\* what a direct call did: raised, an exception left the method; returned,
\* the truth value of what it returned; kept, the position that was open
\* under the mint before the call is there unaltered after it
Called(op, mint, s, after, raised, returned) ==
    [op |-> op, mint |-> mint, was_open |-> Has(s.active_positions, mint),
     raised |-> raised, returned |-> returned, unchanged |-> after = s,
     kept |-> Has(s.active_positions, mint)
                => /\ Has(after.active_positions, mint)
                   /\ Get(after.active_positions, mint) = Get(s.active_positions, mint),
     debit |-> s.equity - after.equity,
     counted |-> after.tokens_bought - s.tokens_bought,
     appended |-> Len(after.trades) - Len(s.trades)]

\* the tokens a caller has at hand: those the marketplaces list
Offered == UNION {{f[i] : i \in DOMAIN f} : f \in market.feeds}

\* trading_engine.enter_position(token), some time after the previous call,
\* for a token open or not (the run opens no more positions than Feeds allows)
EnterPosition ==
    /\ tokens_bought + 1 <= Cardinality(Listed) + MaxRebuys
    /\ \E d \in Delays, token \in Offered :
          /\ ClockOK(now + d)
          /\ \E s \in {[State EXCEPT !.now = now + d]} :
                \E r \in {enter_position(s, token)} :
                    /\ Install(r.s)
                    /\ last_call' = Called("enter_position", token.mint, s, r.s,
                                           FALSE, r.ok)
    /\ UNCHANGED <<turbo_mode, config, module_globals, market, presses, last_cycle>>

\* trading_engine.close_position(mint, reason, pnl), for a mint open or not;
\* the caller passes the P&L of a sale at cost
ClosePosition ==
    /\ \E d \in Delays, mint \in Listed :
          /\ ClockOK(now + d)
          /\ \E s \in {[State EXCEPT !.now = now + d]} :
                \E r \in {close_position(s, mint, "MANUAL", 0)} :
                    /\ Install(r.s)
                    /\ last_call' = Called("close_position", mint, s, r.s,
                                           r.failed, FALSE)
    /\ UNCHANGED <<turbo_mode, config, module_globals, market, presses, last_cycle>>

----------------------------------------------------------------------------
(* The application as Streamlit runs it: every run of main.py builds the
   engine anew (line 70) before run_improved_bot calls run_trading_cycle on
   it (lines 337-382), the runs come RerunPeriod apart, and the marketplaces
   list other tokens as time goes by. *)

\* how long the crowded runs are followed for
MaxDrainTime == 10
MaxCapTime == 28

RerunPeriod == 1 * PerSecond

Crowd(prefix, first, last) == [i \in 1..(last - first + 1) |-> prefix \o ToString(first + i - 1)]
TopList(first, last) == [i \in 1..(last - first + 1) |-> Top(Crowd("T", first, last)[i])]
MidList(first, last) == [i \in 1..(last - first + 1) |-> Mid(Crowd("M", first, last)[i])]

\* A market with a listing per run and one answer of the price API per
\* token.  The drain: 23 top-size and 2 middle-size tokens leave 32 dollars,
\* then a top-size token is listed ahead of a middle-size one; no request to
\* the price API succeeds.
DrainMarket ==
    [feeds |-> {TopList(1, 8), TopList(9, 16), TopList(17, 23),
                <<Mid("M1"), Mid("M2"), Top("T24"), Mid("M3")>>},
     listing |-> <<TopList(1, 8), TopList(9, 16), TopList(17, 23),
                   <<Mid("M1"), Mid("M2"), Top("T24"), Mid("M3")>>>>,
     quotes |-> [m \in {"T" \o ToString(i) : i \in 1..24} \cup {"M1", "M2", "M3"} |-> 0],
     refresh |-> [m \in {"T" \o ToString(i) : i \in 1..24} \cup {"M1", "M2", "M3"} |-> 0],
     horizon |-> MaxDrainTime]

\* The crowd: eight middle-size tokens are listed in every run (seven next
\* to the top-size token "W" in the third) and are quoted at 1.10 from then
\* on, so that each is partially sold at its first evaluation and held; "W"
\* is quoted at 45 dollars.  No refresh request succeeds.
CapListing ==
    [k \in 1..14 |-> IF k < 3 THEN MidList(8 * k - 7, 8 * k)
                     ELSE IF k = 3 THEN <<Top("W")>> \o MidList(17, 23)
                     ELSE MidList(8 * k - 8, 8 * k - 1)]

CapMarket ==
    [feeds |-> {CapListing[k] : k \in DOMAIN CapListing},
     listing |-> CapListing,
     quotes |-> [m \in {"W"} \cup {"M" \o ToString(i) : i \in 1..111} |->
                    IF m = "W" THEN Quote(9000) ELSE Quote(220)],
     refresh |-> [m \in {"W"} \cup {"M" \o ToString(i) : i \in 1..111} |-> 0],
     horizon |-> MaxCapTime]

CrowdMarkets == {DrainMarket, CapMarket}

\* what fetch_all_tokens returns at time t
Listing(t) ==
    IF t \div RerunPeriod \in DOMAIN market.listing
    THEN market.listing[t \div RerunPeriod]
    ELSE <<>>

\* the API's answer to the request made for each open position
Quoted(per_token) == [m \in Keys(active_positions) |-> per_token[m]]

\* one run of the script with bot or without: run_trading_cycle on the engine
\* the run has just built
RerunCycle ==
    /\ price_history = Empty
    /\ quick_scalp_targets = Empty
    /\ ClockOK(now + RerunPeriod)
    /\ \E s \in {[State EXCEPT !.now = now + RerunPeriod]} :
          \E r \in {run_trading_cycle(s, Quoted(market.refresh), Quoted(market.quotes),
                                      Listing(now + RerunPeriod))} :
              /\ Install(r.s)
              /\ last_cycle' = IF r.ran
                               THEN [ran |-> TRUE, evals |-> r.evals,
                                     closes |-> r.closes, scans |-> r.scans,
                                     refresh |-> Quoted(market.refresh),
                                     quotes |-> Quoted(market.quotes)]
                               ELSE last_cycle
    /\ UNCHANGED <<turbo_mode, config, module_globals, market, presses, last_call>>

\* the start of Init, in a crowded run
InitApp ==
    /\ equity = Usd(1000)
    /\ daily_pnl = 0
    /\ active_positions = <<>>
    /\ trades = <<>>
    /\ seen_tokens = {}
    /\ bot_running = FALSE
    /\ turbo_mode = FALSE
    /\ tokens_bought = 0
    /\ win_streak = 0
    /\ loss_streak = 0
    /\ best_trade = 0
    /\ worst_trade = 0
    /\ last_update = 0
    /\ last_price_update = 0
    /\ last_token_check = 0
    /\ config = NORMAL_SETTINGS
    /\ module_globals = IMPORTED_SETTINGS
    /\ price_history = Empty
    /\ quick_scalp_targets = Empty
    /\ now = 0
    /\ market \in CrowdMarkets
    /\ observed = Empty
    /\ presses = 0
    /\ last_cycle = [ran |-> FALSE, evals |-> <<>>, closes |-> <<>>, scans |-> <<>>,
                     refresh |-> Empty, quotes |-> Empty]
    /\ last_call = NoCall

NextApp ==
    \/ RerunCycle
    \/ StartPause
    \/ ClearSeen
    \/ ToggleTurbo
    \/ ResetBot
    \/ NewEngine

SpecApp == InitApp /\ [][NextApp]_vars

\* how many flat periods in a row the direct calls of check_exit_conditions
\* are followed for
MaxNoChange == 17

\* trading_engine.check_exit_conditions(position, current_price) for an open
\* position, some time after the previous call, at the price the token was
\* listed with; the caller does not act on the verdict
CheckExitConditions ==
    /\ \E d \in Delays, mint \in Keys(active_positions) :
          /\ ClockOK(now + d)
          /\ Get(active_positions, mint).consecutive_no_change_periods < MaxNoChange
          /\ \E s \in {[State EXCEPT !.now = now + d]} :
                \E r \in {check_exit_conditions(s, mint, Get(active_positions, mint).token.price_usd)} :
                    /\ Install(r.s)
                    /\ last_call' = Called("check_exit_conditions", mint, s, r.s,
                                           FALSE, r.should_exit)
    /\ UNCHANGED <<turbo_mode, config, module_globals, market, presses, last_cycle>>

\* a run that lists one candidate, of the middle or of the top size
InitEngine ==
    /\ InitCandidate
    /\ market.feeds \in {{<<Candidate(Quote(200), sc, 500001, 200, 0, 20000, 15000)>>} :
                            sc \in {60, 80}}

NextEngine ==
    \/ EnterPosition
    \/ ClosePosition
    \/ NewEngine

SpecEngine == InitEngine /\ [][NextEngine]_vars

\* a run that lists one candidate of the top size, a quick scalp or not, and
\* in which the price API answers with the unchanged scan price
WindowMarkets ==
    {[feeds |-> {<<Candidate(Quote(200), 80, 500001, 200, c5, 40000, 15000)>>},
      quotes |-> [m \in Mints |-> {Quote(200)}],
      refresh |-> [m \in Mints |-> {0}]] : c5 \in {0, 150}}

\* the start of Init, in such a run
InitWindow ==
    /\ equity = Usd(1000)
    /\ daily_pnl = 0
    /\ active_positions = <<>>
    /\ trades = <<>>
    /\ seen_tokens = {}
    /\ bot_running = FALSE
    /\ turbo_mode = FALSE
    /\ tokens_bought = 0
    /\ win_streak = 0
    /\ loss_streak = 0
    /\ best_trade = 0
    /\ worst_trade = 0
    /\ last_update = 0
    /\ last_price_update = 0
    /\ last_token_check = 0
    /\ config = NORMAL_SETTINGS
    /\ module_globals = IMPORTED_SETTINGS
    /\ price_history = Empty
    /\ quick_scalp_targets = Empty
    /\ now = 0
    /\ market \in WindowMarkets
    /\ observed = Empty
    /\ presses = 0
    /\ last_cycle = [ran |-> FALSE, evals |-> <<>>, closes |-> <<>>, scans |-> <<>>,
                     refresh |-> Empty, quotes |-> Empty]
    /\ last_call = NoCall

NextWindow ==
    \/ EnterPosition
    \/ CheckExitConditions
    \/ ClosePosition
    \/ NewEngine

SpecWindow == InitWindow /\ [][NextWindow]_vars

SpecCandidate == InitCandidate /\ [][Next]_vars

\* main.py lines 337-382: while bot_running is set, run_improved_bot ends
\* every script run with time.sleep(0.3) and st.rerun(), so another
\* run_trading_cycle call that gets past its guards always follows
RunningCycle == RunTradingCycle /\ last_update' # last_update

SpecFair == Spec /\ WF_vars(RunningCycle)

\* the same start, in a run followed through a longer series of quotes
InitExit ==
    /\ equity = Usd(1000)
    /\ daily_pnl = 0
    /\ active_positions = <<>>
    /\ trades = <<>>
    /\ seen_tokens = {}
    /\ bot_running = FALSE
    /\ turbo_mode = FALSE
    /\ tokens_bought = 0
    /\ win_streak = 0
    /\ loss_streak = 0
    /\ best_trade = 0
    /\ worst_trade = 0
    /\ last_update = 0
    /\ last_price_update = 0
    /\ last_token_check = 0
    /\ config = NORMAL_SETTINGS
    /\ module_globals = IMPORTED_SETTINGS
    /\ price_history = Empty
    /\ quick_scalp_targets = Empty
    /\ now = 0
    /\ market \in ExitMarkets
    /\ observed = Empty
    /\ presses = 0
    /\ last_cycle = [ran |-> FALSE, evals |-> <<>>, closes |-> <<>>, scans |-> <<>>,
                     refresh |-> Empty, quotes |-> Empty]
    /\ last_call = NoCall

SpecExit == InitExit /\ [][Next]_vars

----------------------------------------------------------------------------
(* Properties *)

\* the mints of the trades a step appends to the ledger
ClosedInStep ==
    IF Len(trades') > Len(trades)
    THEN {trades'[i].mint_address : i \in (Len(trades) + 1)..Len(trades')}
    ELSE {}

\* C1  No re-entry while open: should_buy_token answers False for a token
\* whose mint is a key of active_positions, whatever its other fields and
\* whether or not it is in seen_tokens; and a position that a step neither
\* closes nor resets away is the same position after the step (same entry
\* time, same size), so an open mint is never opened a second time.
C1_NoReentryStep ==
    /\ \A i \in DOMAIN last_cycle'.scans :
          last_cycle'.scans[i].was_open =>
              ~last_cycle'.scans[i].accepted /\ ~last_cycle'.scans[i].entered
    /\ \A m \in Keys(active_positions) :
          (m \in Keys(active_positions') /\ m \notin ClosedInStep) =>
              /\ Get(active_positions', m).entry_time = Get(active_positions, m).entry_time
              /\ Get(active_positions', m).position_size
                    = Get(active_positions, m).position_size

C1_NoReentryWhileOpen == [][C1_NoReentryStep]_vars

\* C1 witness: the scan was offered a token that passes every filter, is not
\* in seen_tokens and has an open position; it was turned down and the
\* position is still open.
C1_Witness ==
    \E i \in DOMAIN last_cycle.scans :
        /\ last_cycle.scans[i].was_open
        /\ ~last_cycle.scans[i].was_seen
        /\ ~last_cycle.scans[i].accepted
        /\ Has(active_positions, last_cycle.scans[i].mint)

\* C2  The circuit breaker halts entries: a step that starts with daily_pnl at
\* or below MAX_DAILY_LOSS, or whose closes leave it there, adds no key to
\* active_positions and buys nothing; and no scan decision taken with
\* daily_pnl at or below the limit is an entry.
C2_BreakerStep ==
    /\ (daily_pnl <= MAX_DAILY_LOSS \/ daily_pnl' <= MAX_DAILY_LOSS) =>
          /\ Keys(active_positions') \subseteq Keys(active_positions)
          /\ tokens_bought' <= tokens_bought
    /\ \A i \in DOMAIN last_cycle'.scans :
          last_cycle'.scans[i].daily_pnl <= MAX_DAILY_LOSS =>
              ~last_cycle'.scans[i].accepted /\ ~last_cycle'.scans[i].entered

C2_BreakerHaltsEntries == [][C2_BreakerStep]_vars

\* C2 witness: the closes of the last cycle took daily_pnl to the limit or
\* below, and its scan, run after them, turned down a token that was neither
\* seen nor open.
C2_Witness ==
    /\ daily_pnl <= MAX_DAILY_LOSS
    /\ \E i \in DOMAIN last_cycle.evals : last_cycle.evals[i].should_exit
    /\ \E i \in DOMAIN last_cycle.scans :
          /\ last_cycle.scans[i].daily_pnl <= MAX_DAILY_LOSS
          /\ ~last_cycle.scans[i].was_seen
          /\ ~last_cycle.scans[i].was_open
          /\ ~last_cycle.scans[i].accepted

\* C3  The circuit breaker does not halt exits: a run_trading_cycle call made
\* with the bot running, daily_pnl at or below MAX_DAILY_LOSS and positions
\* open (and later than CYCLE_DELAY after the previous cycle) still runs the
\* exit loop and hands every open position to check_exit_conditions.
\* (A step that advances the clock is a call of run_trading_cycle, and
\* last_update is the time of the last call that got past line 403.)
C3_ExitsStep ==
    (/\ now' > now
     /\ bot_running
     /\ daily_pnl <= MAX_DAILY_LOSS
     /\ active_positions # <<>>)
    => /\ last_update' = now'
       /\ \A m \in Keys(active_positions) :
             \E i \in DOMAIN last_cycle'.evals : last_cycle'.evals[i].mint = m

C3_BreakerKeepsExits == [][C3_ExitsStep]_vars

\* an evaluation of the last cycle's exit loop found the position at or above
\* the 20% target and held for MAX_TRADE_DURATION or longer
DualEligible(e) ==
    /\ PctGE(e.price, e.before.entry_price, 20)
    /\ e.time_held >= MAX_TRADE_DURATION

\* C4 (as claimed)  Exit priority: a position eligible for the hard
\* take-profit and for the timeout at once gets a full close with the
\* take-profit reason.
C4_AlwaysTakeProfit ==
    \A i \in DOMAIN last_cycle.evals :
        DualEligible(last_cycle.evals[i]) =>
            /\ last_cycle.evals[i].should_exit
            /\ last_cycle.evals[i].reason = "TAKE_PROFIT_20%"

\* C4 (amended)  Exit priority: for a position eligible for the hard
\* take-profit and for the timeout at once the verdict is never TIMEOUT.  A
\* registered quick scalp is closed as QUICK_SCALP; otherwise a position that
\* has not been partially sold gets the partial verdict PARTIAL_8% and stays
\* open; otherwise it is closed, as NO_CHANGE or TRAILING_STOP if one of those
\* rules applies and else as TAKE_PROFIT_20%.
C4_ExitPriority ==
    \A i \in DOMAIN last_cycle.evals :
        LET e == last_cycle.evals[i]
        IN  DualEligible(e) =>
              /\ e.reason # "TIMEOUT"
              /\ IF e.scalp THEN e.should_exit /\ e.reason = "QUICK_SCALP"
                 ELSE IF ~e.before.partial_sold
                 THEN ~e.should_exit /\ e.reason = "PARTIAL_8%"
                 ELSE /\ e.should_exit
                      /\ e.reason \in {"NO_CHANGE", "TRAILING_STOP", "TAKE_PROFIT_20%"}
                      /\ (e.before.trailing_stop = 0 \/ e.price > e.before.trailing_stop)
                            => e.reason \in {"NO_CHANGE", "TAKE_PROFIT_20%"}

\* C4 witness: a partially sold position, at +25% and past the maximum hold
\* time, was closed as TAKE_PROFIT_20%.
C4_Witness ==
    \E i \in DOMAIN last_cycle.evals :
        /\ DualEligible(last_cycle.evals[i])
        /\ last_cycle.evals[i].before.partial_sold
        /\ last_cycle.evals[i].reason = "TAKE_PROFIT_20%"
        /\ \E j \in DOMAIN trades :
              /\ trades[j].mint_address = last_cycle.evals[i].mint
              /\ trades[j].exit_reason = "TAKE_PROFIT_20%"
              /\ trades[j].timestamp = now

\* C5  Partial-close idempotence: a position whose partial_sold flag is True
\* keeps the flag and its tokens_bought for as long as it stays open, and an
\* evaluation of a position that is already partially sold never returns
\* PARTIAL_8% and credits nothing to equity or daily_pnl; so a position is
\* partially closed at most once.
C5_PartialStep ==
    /\ \A m \in Keys(active_positions) :
          (/\ Get(active_positions, m).partial_sold
           /\ m \in Keys(active_positions')
           /\ m \notin ClosedInStep)
          => /\ Get(active_positions', m).partial_sold
             /\ Get(active_positions', m).tokens_bought
                   = Get(active_positions, m).tokens_bought
    /\ \A i \in DOMAIN last_cycle'.evals :
          last_cycle'.evals[i].before.partial_sold =>
              /\ last_cycle'.evals[i].reason # "PARTIAL_8%"
              /\ last_cycle'.evals[i].credit = 0
              /\ last_cycle'.evals[i].realized = 0

C5_PartialOnce == [][C5_PartialStep]_vars

\* C5 witness: a partially sold position was evaluated again at 8% or more
\* above its entry price, and is still open.
C5_Witness ==
    \E i \in DOMAIN last_cycle.evals :
        /\ last_cycle.evals[i].before.partial_sold
        /\ PctGE(last_cycle.evals[i].price, last_cycle.evals[i].before.entry_price, 8)
        /\ ~last_cycle.evals[i].should_exit
        /\ Has(active_positions, last_cycle.evals[i].mint)
        /\ Get(active_positions, last_cycle.evals[i].mint).partial_sold

\* the largest element of a non-empty set of prices
SetMax(S) == CHOOSE x \in S : \A y \in S : y <= x

\* C6 (as claimed)  Highest-price tracking: the highest_price of a position
\* that check_exit_conditions has evaluated equals the maximum of the prices
\* fed to check_exit_conditions for it.
C6_HighestIsMaxObserved ==
    \A m \in Keys(active_positions) :
        observed[m].fed # {} =>
            Get(active_positions, m).highest_price = SetMax(observed[m].fed)

\* C6 (amended)  Highest-price tracking: the highest_price of an open position
\* is the maximum of its entry fill price, of the prices fed to
\* check_exit_conditions for it and of the prices update_all_prices accepted
\* for it, in whatever order they came.
C6_HighestPrice ==
    \A m \in Keys(active_positions) :
        Get(active_positions, m).highest_price
            = SetMax({Get(active_positions, m).entry_price}
                     \cup observed[m].fed \cup observed[m].refreshed)

\* C6 witness: a position was fed at least two different prices, the highest
\* of them above the entry fill price and not the last one.
C6_Witness ==
    \E m \in Keys(active_positions) :
        /\ Cardinality(observed[m].fed) >= 2
        /\ Get(active_positions, m).highest_price = SetMax(observed[m].fed)
        /\ Get(active_positions, m).highest_price > Get(active_positions, m).entry_price
        /\ Get(active_positions, m).current_price < Get(active_positions, m).highest_price

\* ((size - TRANSACTION_FEE) / (p*(1+SLIPPAGE))) * p*(1-SLIPPAGE)
\*     - TRANSACTION_FEE - size
FlatRoundTrip(size, p) ==
    MulPrice(DivPrice(size - TRANSACTION_FEE, OnePlusSlippage(p)), OneMinusSlippage(p))
        - TRANSACTION_FEE - size

\* C7  Accounting symmetry: a position without a partial close that is
\* evaluated and closed at the market price it was entered at realizes
\* exactly FlatRoundTrip(size, p), which is (size - fee) * 199/201 - fee - size
\* and strictly negative; the close returns size + pnl to equity and adds pnl
\* to daily_pnl, and the trade record carries the same pnl.
C7_AccountingSymmetry ==
    /\ \A i \in DOMAIN last_cycle.closes :
          LET c == last_cycle.closes[i]
              size == c.position.position_size
          IN  (~c.position.partial_sold
               /\ c.position.current_price = c.position.token.price_usd)
              => /\ c.pnl = FlatRoundTrip(size, c.position.token.price_usd)
                 /\ c.pnl = ExactDiv(size - TRANSACTION_FEE, 201) * 199
                              - TRANSACTION_FEE - size
                 /\ c.pnl < 0
                 /\ c.credit = size + c.pnl
                 /\ c.realized = c.pnl
    /\ \A j \in DOMAIN trades :
          (~trades[j].partial_sold /\ trades[j].exit_price = trades[j].token.price_usd)
          => /\ trades[j].pnl = FlatRoundTrip(trades[j].position_size,
                                              trades[j].token.price_usd)
             /\ trades[j].pnl < 0

\* C7 witness: the last cycle closed an unsold position at its entry market
\* price, and the ledger holds the trade.
C7_Witness ==
    \E i \in DOMAIN last_cycle.closes :
        /\ ~last_cycle.closes[i].position.partial_sold
        /\ last_cycle.closes[i].position.current_price
              = last_cycle.closes[i].position.token.price_usd
        /\ \E j \in DOMAIN trades :
              /\ trades[j].mint_address = last_cycle.closes[i].mint
              /\ trades[j].pnl = last_cycle.closes[i].pnl
              /\ trades[j].exit_price = trades[j].token.price_usd

\* the net proceeds of selling tokens at an observed price: slippage once on
\* the price, the flat fee once
NetProceeds(tokens, price) ==
    MulPrice(tokens, OneMinusSlippage(price)) - TRANSACTION_FEE

\* C8  Fees once per close event, slippage once per fill: entry pays the fill
\* price market * (1 + SLIPPAGE) and buys (size - TRANSACTION_FEE) worth of
\* tokens; a partial close credits equity with the net proceeds of the tokens
\* it sells (the 40% taken off tokens_bought), and a full close with the net
\* proceeds of the tokens the position holds: price * (1 - SLIPPAGE) per
\* token, less TRANSACTION_FEE, each exactly once.
C8_FeesAndSlippageOnce ==
    /\ \A m \in Keys(active_positions) :
          LET position == Get(active_positions, m)
          IN  ~position.partial_sold =>
                /\ position.entry_price = OnePlusSlippage(position.token.price_usd)
                /\ position.tokens_bought
                      = DivPrice(position.position_size - TRANSACTION_FEE,
                                 position.entry_price)
    /\ \A i \in DOMAIN last_cycle.evals :
          LET e == last_cycle.evals[i]
          IN  e.reason = "PARTIAL_8%" =>
                e.credit = NetProceeds(Frac(e.before.tokens_bought, 4, 10), e.price)
    /\ \A i \in DOMAIN last_cycle.closes :
          LET c == last_cycle.closes[i]
          IN  c.credit = NetProceeds(c.position.tokens_bought, c.position.current_price)

\* C9  Full close after a partial close: closing a partially sold position
\* credits equity with exactly the net proceeds of the tokens it still holds,
\* remaining tokens_bought * current price * (1 - SLIPPAGE) - TRANSACTION_FEE.
C9_RemainderCredited ==
    \A i \in DOMAIN last_cycle.closes :
        last_cycle.closes[i].position.partial_sold =>
            last_cycle.closes[i].credit
                = MulPrice(last_cycle.closes[i].position.tokens_bought,
                           OneMinusSlippage(last_cycle.closes[i].position.current_price))
                  - TRANSACTION_FEE

\* C10  The percent change compared against the exit thresholds is taken
\* against the pre-slippage market price at entry (the token's price_usd):
\* an evaluation at 20% or more above that price meets the hard take-profit,
\* so a partially sold position (not a registered quick scalp, no stagnation
\* or trailing-stop exit applying) observed there, such as one entered at
\* market price 1.00 and observed at 1.20, is closed as TAKE_PROFIT_20%.
C10_PercentAgainstMarketEntry ==
    \A i \in DOMAIN last_cycle.evals :
        LET e == last_cycle.evals[i]
        IN  (/\ PctGE(e.price, e.before.token.price_usd, 20)
             /\ e.before.partial_sold
             /\ ~e.scalp
             /\ e.reason \notin {"NO_CHANGE", "TRAILING_STOP"})
            => e.should_exit /\ e.reason = "TAKE_PROFIT_20%"

\* C11  Stop-loss regardless of elapsed time: every evaluation by
\* check_exit_conditions at a percent change of -8 or lower returns a full
\* close on that very evaluation, whatever the hold time, and the position is
\* closed in the same cycle; the reason is STOP_LOSS_8% unless an earlier rule
\* closes it (SCALP_TIMEOUT, NO_CHANGE, TRAILING_STOP), and it is never
\* TIMEOUT, also when the position is past MAX_TRADE_DURATION.
C11_StopLossAnyTime ==
    \A i \in DOMAIN last_cycle.evals :
        LET e == last_cycle.evals[i]
        IN  PctLE(e.price, e.before.entry_price, 0 - 8) =>
              /\ e.should_exit
              /\ e.reason \in {"STOP_LOSS_8%", "SCALP_TIMEOUT", "NO_CHANGE",
                               "TRAILING_STOP"}
              /\ e.reason # "TIMEOUT"
              /\ (~e.scalp /\ e.reason \notin {"NO_CHANGE", "TRAILING_STOP"})
                    => e.reason = "STOP_LOSS_8%"
              /\ \E j \in DOMAIN last_cycle.closes :
                    /\ last_cycle.closes[j].mint = e.mint
                    /\ last_cycle.closes[j].reason = e.reason

\* C11 witness: a position held for MAX_TRADE_DURATION or longer was evaluated
\* at 8% or more below its entry price and closed as STOP_LOSS_8%.
C11_Witness ==
    \E i \in DOMAIN last_cycle.evals :
        /\ PctLE(last_cycle.evals[i].price, last_cycle.evals[i].before.entry_price, 0 - 8)
        /\ last_cycle.evals[i].time_held >= MAX_TRADE_DURATION
        /\ last_cycle.evals[i].reason = "STOP_LOSS_8%"
        /\ \E j \in DOMAIN trades :
              /\ trades[j].mint_address = last_cycle.evals[i].mint
              /\ trades[j].exit_reason = "STOP_LOSS_8%"
              /\ trades[j].timestamp = now

\* the positions of the records a step appends to the ledger for mint m
AppendedFor(m) ==
    {i \in (Len(trades) + 1)..Len(trades') : trades'[i].mint_address = m}

\* the step destroys the position open under m (the key goes, or comes to
\* hold a position entered later)
Destroyed(m) ==
    /\ m \in Keys(active_positions)
    /\ \/ m \notin Keys(active_positions')
       \/ Get(active_positions', m).entry_time # Get(active_positions, m).entry_time

\* the step is a run_trading_cycle call that got past line 403
CycleRan == last_update' # last_update

\* C12  A position is destroyed exactly once and only by close_position: a
\* step that removes a position from active_positions is a trading cycle whose
\* close loop closed it, and it appends exactly one trade record for that
\* position; every record a step appends is for a position the step removes;
\* and an evaluation returning hold or a partial close leaves the position in
\* active_positions and appends no trade.
C12_DestroyStep ==
    /\ \A m \in Keys(active_positions) :
          Destroyed(m) =>
              /\ CycleRan
              /\ \E j \in DOMAIN last_cycle'.closes : last_cycle'.closes[j].mint = m
              /\ Len(trades') >= Len(trades)
              /\ SubSeq(trades', 1, Len(trades)) = trades
              /\ Cardinality(AppendedFor(m)) = 1
    /\ \A m \in Mints : AppendedFor(m) # {} => Destroyed(m)
    /\ CycleRan =>
          \A i \in DOMAIN last_cycle'.evals :
              ~last_cycle'.evals[i].should_exit =>
                  /\ ~Destroyed(last_cycle'.evals[i].mint)
                  /\ AppendedFor(last_cycle'.evals[i].mint) = {}

C12_DestroyedOnlyByClose == [][C12_DestroyStep]_vars

\* the step is an engine operation and no dashboard button
EngineStep == presses' = presses

\* C13  The closed-trade log is append-only and chronological: a step of the
\* engine (a run_trading_cycle call with its update_all_prices,
\* check_exit_conditions, close_position and enter_position calls) leaves
\* every record already in the log unchanged and in place; each close_position
\* call of the cycle adds exactly one record, at the end and in the order of
\* the calls, stamped with the time of the call; a cycle without closes adds
\* none; and the timestamps of the log are non-decreasing in list order.
C13_AppendStep ==
    EngineStep =>
        LET closes == IF CycleRan THEN last_cycle'.closes ELSE <<>>
        IN  /\ Len(trades') = Len(trades) + Len(closes)
            /\ SubSeq(trades', 1, Len(trades)) = trades
            /\ \A k \in DOMAIN closes :
                  /\ trades'[Len(trades) + k].mint_address = closes[k].mint
                  /\ trades'[Len(trades) + k].exit_reason = closes[k].reason
                  /\ trades'[Len(trades) + k].pnl = closes[k].pnl
                  /\ trades'[Len(trades) + k].timestamp = now'
            /\ \A i, j \in DOMAIN trades' :
                  i <= j => trades'[i].timestamp <= trades'[j].timestamp

C13_AppendOnlyLog == [][C13_AppendStep]_vars

\* C13 witness: the log holds records of closes made at different times, the
\* last of them appended by the last cycle behind the older ones.
C13_Witness ==
    /\ Len(trades) >= 2
    /\ trades[1].timestamp < trades[Len(trades)].timestamp
    /\ trades[Len(trades)].timestamp = now
    /\ last_cycle.closes # <<>>
    /\ trades[Len(trades)].mint_address
          = last_cycle.closes[Len(last_cycle.closes)].mint

\* C14  Opening and closing move exactly the right amounts: an enter_position
\* call that succeeds debits equity by the size calculate_position_size gives
\* for the token, adds one to tokens_bought and inserts one position, whose
\* entry price is price_usd * (1 + SLIPPAGE), whose size is the debit and whose
\* tokens_bought is (size - TRANSACTION_FEE) / entry price; a scan decision
\* that opens nothing debits nothing and counts nothing; and closing a
\* position that was never partially sold credits equity with exactly its net
\* proceeds, tokens_bought * current price * (1 - SLIPPAGE) - TRANSACTION_FEE.
C14_OpenDebitCloseCredit ==
    /\ \A i \in DOMAIN last_cycle.scans :
          LET d == last_cycle.scans[i]
              size == calculate_position_size(d.token)
          IN  IF d.entered
              THEN /\ d.debit = size
                   /\ d.counted = 1
                   /\ d.opened = 1
                   /\ d.position.mint = d.token.mint
                   /\ d.position.position_size = size
                   /\ d.position.entry_price = Frac(d.token.price_usd, 1005, 1000)
                   /\ d.position.tokens_bought
                         = DivPrice(size - TRANSACTION_FEE, d.position.entry_price)
                   /\ ~d.position.partial_sold
              ELSE d.debit = 0 /\ d.counted = 0 /\ d.opened = 0
    /\ \A j \in DOMAIN last_cycle.closes :
          LET c == last_cycle.closes[j]
          IN  ~c.position.partial_sold =>
                c.credit = MulPrice(c.position.tokens_bought,
                                    Frac(c.position.current_price, 995, 1000))
                             - TRANSACTION_FEE

\* C14 witness: the last cycle closed a position that was never partially
\* sold, at a price other than its entry price, crediting equity; and a
\* position opened by an earlier scan of the run is still open and unsold.
C14_Witness ==
    /\ \E j \in DOMAIN last_cycle.closes :
          /\ ~last_cycle.closes[j].position.partial_sold
          /\ last_cycle.closes[j].position.current_price
                # last_cycle.closes[j].position.token.price_usd
          /\ last_cycle.closes[j].credit > 0
          /\ \E k \in DOMAIN trades :
                /\ trades[k].mint_address = last_cycle.closes[j].mint
                /\ trades[k].timestamp = now
    /\ \E m \in Keys(active_positions) :
          /\ ~Get(active_positions, m).partial_sold
          /\ Get(active_positions, m).position_size
                = calculate_position_size(Get(active_positions, m).token)
    /\ tokens_bought = Len(trades) + Len(active_positions)

\* a scan decision on a token that passes every check of should_buy_token
\* other than the momentum filter, under the settings in force at the call
PassesOtherChecks(d) ==
    /\ ~d.was_open
    /\ ~d.was_seen
    /\ d.daily_pnl > MAX_DAILY_LOSS
    /\ d.token.score >= d.profile.MIN_TOKEN_SCORE
    /\ d.globals.MIN_MARKET_CAP <= d.token.market_cap
    /\ d.token.market_cap <= MAX_MARKET_CAP
    /\ d.token.liquidity >= d.globals.MIN_LIQUIDITY
    /\ d.token.market_cap > 0
    /\ d.token.volume_24h >= MIN_VOLUME_TO_MCAP_RATIO * d.token.market_cap

\* price_change_1h >= MIN_PRICE_INCREASE * 100, and
\* price_change_5m >= 0.5 * MIN_PRICE_INCREASE * 100
Momentum1h(d) == d.token.price_change_1h >= d.profile.MIN_PRICE_INCREASE
Momentum5m(d) == 2 * d.token.price_change_5m >= d.profile.MIN_PRICE_INCREASE

C16_SizeBoundedMonotonic ==
    \A i \in DOMAIN last_cycle.scans :
        LET d == last_cycle.scans[i]
        IN  /\ d.size = calculate_position_size(d.token)
            /\ BASE_POSITION_SIZE <= d.size
            /\ d.size <= MAX_POSITION_SIZE
            /\ \A sc \in Scores, v \in Volumes :
                  LET other == calculate_position_size([score |-> sc, volume_24h |-> v])
                  IN  /\ (sc <= d.token.score /\ v <= d.token.volume_24h)
                            => other <= d.size
                      /\ (sc >= d.token.score /\ v >= d.token.volume_24h)
                            => other >= d.size
            /\ d.entered => d.position.position_size = d.size

\* C16 witness: a candidate of the middle step (score 60 to 74, or a volume
\* of at most 500000, and a volume above 100000) was sized at 1.5 times the
\* base size, between a smaller and a larger size of the grid, and bought.
C16_Witness ==
    \E i \in DOMAIN last_cycle.scans :
        /\ last_cycle.scans[i].size = Frac(BASE_POSITION_SIZE, 15, 10)
        /\ last_cycle.scans[i].entered
        /\ Has(active_positions, last_cycle.scans[i].mint)
        /\ Get(active_positions, last_cycle.scans[i].mint).position_size
              = last_cycle.scans[i].size
        /\ \E sc \in Scores, v \in Volumes :
              /\ sc <= last_cycle.scans[i].token.score
              /\ v <= last_cycle.scans[i].token.volume_24h
              /\ calculate_position_size([score |-> sc, volume_24h |-> v])
                    < last_cycle.scans[i].size
        /\ \E sc \in Scores, v \in Volumes :
              /\ sc >= last_cycle.scans[i].token.score
              /\ v >= last_cycle.scans[i].token.volume_24h
              /\ calculate_position_size([score |-> sc, volume_24h |-> v])
                    > last_cycle.scans[i].size

\* C17  Entry decision side effects: a should_buy_token call leaves equity,
\* daily_pnl, active_positions, the trade log and every other field of the
\* ledger and the engine as they were, except seen_tokens; when it answers
\* False it leaves seen_tokens as it was too, and when it answers True it
\* adds the candidate's mint to seen_tokens and nothing else.
C17_DecisionFrame ==
    \A i \in DOMAIN last_cycle.scans :
        LET d == last_cycle.scans[i]
        IN  /\ d.others_kept
            /\ d.seen_added = IF d.accepted THEN {d.mint} ELSE {}

\* C17 witness: a cycle of an empty ledger accepted a candidate that is in no
\* position to be bought (its price is 0): the ledger shows what
\* should_buy_token alone did, the mint in seen_tokens and nothing else.
C17_Witness ==
    /\ \E i \in DOMAIN last_cycle.scans :
          /\ last_cycle.scans[i].accepted
          /\ ~last_cycle.scans[i].entered
          /\ last_cycle.scans[i].seen_added = {last_cycle.scans[i].mint}
          /\ seen_tokens = {last_cycle.scans[i].mint}
    /\ equity = Usd(1000)
    /\ daily_pnl = 0
    /\ active_positions = <<>>
    /\ trades = <<>>
    /\ tokens_bought = 0

\* C18  Decide-and-open is one atomic step: whenever the scan's
\* should_buy_token call accepts a candidate and marks its mint as seen, the
\* same cycle opens a position for that mint and debits equity by its size;
\* no candidate is accepted and marked seen without a position being created.
C18_AcceptedIsOpened ==
    \A i \in DOMAIN last_cycle.scans :
        LET d == last_cycle.scans[i]
        IN  d.accepted =>
              /\ d.entered
              /\ d.opened = 1
              /\ d.position.mint = d.mint
              /\ d.debit = d.size

\* C19  Opening on an occupied key fails: an enter_position call for a token
\* whose mint has an open position leaves that position as it is, debits
\* nothing from equity, adds nothing to tokens_bought and does not return a
\* position (it raises, or it returns None).
C19_OccupiedKeyRefused ==
    (last_call.op = "enter_position" /\ last_call.was_open) =>
        /\ last_call.kept
        /\ last_call.debit = 0
        /\ last_call.counted = 0
        /\ ~last_call.returned

\* C20  Closing requires an open position: a close_position call for a mint
\* with no open position raises, and leaves equity, daily_pnl, the streak
\* counters, best and worst trade, the trade log, active_positions and the
\* engine's own records exactly as they were.
C20_CloseNeedsPosition ==
    (last_call.op = "close_position" /\ ~last_call.was_open) =>
        /\ last_call.raised
        /\ last_call.unchanged
        /\ last_call.appended = 0
        /\ last_call.debit = 0

\* C20 witness: a position was opened and closed, and a second close_position
\* call for the same mint raised; the log holds the one trade.
C20_Witness ==
    /\ last_call.op = "close_position"
    /\ ~last_call.was_open
    /\ last_call.raised
    /\ Len(trades) = 1
    /\ trades[1].mint_address = last_call.mint
    /\ loss_streak = 1
    /\ active_positions = <<>>

\* the evaluations the cycle of this step made of the position under m
EvalsOf(m) ==
    {i \in DOMAIN last_cycle'.evals : last_cycle'.evals[i].mint = m}

\* the cycle of this step ran update_all_prices (lines 409-411)
PricesRefreshed == CycleRan /\ last_price_update' # last_price_update

\* C21  Per-token failure isolation: in a run_trading_cycle call that gets
\* past its guards, whatever requests to the price API fail, every position
\* open at the start of the call is evaluated once by check_exit_conditions;
\* every position whose API request succeeded in update_all_prices with a
\* price within 70% of its current price enters the evaluation with that
\* price as current_price; every position with a full-close verdict is closed
\* in the same call, with one trade appended; and the call goes on to set
\* last_update, so it was not aborted.
C21_IsolationStep ==
    CycleRan =>
        /\ last_update' = now'
        /\ \A m \in Keys(active_positions) :
              /\ Cardinality(EvalsOf(m)) = 1
              /\ \A i \in EvalsOf(m) :
                    LET e == last_cycle'.evals[i]
                        fresh == last_cycle'.refresh[m]
                        current_price == Get(active_positions, m).current_price
                    IN  /\ (/\ PricesRefreshed
                             /\ fresh > 0
                             /\ Abs(fresh - current_price) * 10 < 7 * current_price)
                            => e.before.current_price = fresh
                        /\ last_cycle'.quotes[m] > 0 => e.price = last_cycle'.quotes[m]
                        /\ e.should_exit =>
                              /\ \E j \in DOMAIN last_cycle'.closes :
                                    last_cycle'.closes[j].mint = m
                              /\ Cardinality(AppendedFor(m)) = 1
                              /\ Destroyed(m)

NoFreshPrice(m) ==
    /\ CycleRan
    /\ m \in Keys(active_positions)
    /\ last_cycle'.quotes[m] = 0
    /\ PricesRefreshed => last_cycle'.refresh[m] = 0

\* C22  No fresh price means no mutation: in a cycle in which every price
\* request for an open position's token fails, the position keeps its last
\* known current_price and is not mutated: it stays open with the same
\* fields (highest_price and consecutive_no_change_periods among them), no
\* price is appended to its history, and no trade is recorded for it.
C22_NoFreshPriceStep ==
    \A m \in Keys(active_positions) :
        NoFreshPrice(m) =>
            /\ Has(active_positions', m)
            /\ Get(active_positions', m) = Get(active_positions, m)
            /\ price_history'[m] = price_history[m]
            /\ AppendedFor(m) = {}

C22_NoFreshPriceNoMutation == [][C22_NoFreshPriceStep]_vars

\* the mints closed by the first n closes of the cycle of this step, and the
\* mints entered by its first n scan decisions
ClosedBefore(n) == {last_cycle'.closes[i].mint : i \in 1..n}
EnteredBefore(n) ==
    {last_cycle'.scans[i].mint : i \in {j \in 1..n : last_cycle'.scans[j].entered}}

\* C23  Tick ordering: in a run_trading_cycle call that gets past its guards,
\* (1) update_all_prices, when due, has acted on a position before it is
\* evaluated; (2) every evaluation sees all the positions that were open at
\* the start still open, so no close and no entry precedes an evaluation;
\* (3) the closes are the full-close verdicts, in the order of evaluation,
\* each on the position as its evaluation left it, with nothing entered yet;
\* (4) every scan decision comes after all the closes; and a position the
\* cycle opens was not open when the evaluations were made and is at the end
\* of the cycle exactly as enter_position created it.
C23_OrderStep ==
    CycleRan =>
        LET evals == last_cycle'.evals
            closes == last_cycle'.closes
            scans == last_cycle'.scans
            verdicts == SelectSeq(evals, LAMBDA e : e.should_exit)
        IN  /\ \A i \in DOMAIN evals :
                  LET e == evals[i]
                      old == Get(active_positions, e.mint)
                      new_price == get_current_price(old.token, last_cycle'.refresh[e.mint])
                  IN  /\ e.open = Keys(active_positions)
                      /\ e.before.entry_time = old.entry_time
                      /\ (/\ PricesRefreshed
                           /\ Abs(new_price - old.current_price) * 10
                                 < 7 * old.current_price)
                          => e.before.current_price = new_price
                      /\ ~PricesRefreshed => e.before = old
            /\ Len(closes) = Len(verdicts)
            /\ \A j \in DOMAIN closes :
                  /\ closes[j].mint = verdicts[j].mint
                  /\ closes[j].position = verdicts[j].after
                  /\ closes[j].open = Keys(active_positions) \ ClosedBefore(j - 1)
            /\ \A k \in DOMAIN scans :
                  /\ scans[k].open = (Keys(active_positions) \ ClosedBefore(Len(closes)))
                                        \cup EnteredBefore(k - 1)
                  /\ scans[k].entered =>
                        /\ scans[k].position.entry_time = now'
                        /\ \A i \in DOMAIN evals : evals[i].before.entry_time < now'
                        /\ \A j \in DOMAIN closes : closes[j].position.entry_time < now'
                        /\ Has(active_positions', scans[k].mint)
                        /\ Get(active_positions', scans[k].mint) = scans[k].position

C23_TickOrdering == [][C23_OrderStep]_vars

\* C23 witness: the last cycle evaluated and closed one position and then
\* opened another, which is open and as entered while the closed one is gone.
C23_Witness ==
    /\ last_cycle.ran
    /\ last_update = now
    /\ \E j \in DOMAIN last_cycle.closes, k \in DOMAIN last_cycle.scans :
          /\ last_cycle.scans[k].entered
          /\ last_cycle.scans[k].mint # last_cycle.closes[j].mint
          /\ ~Has(active_positions, last_cycle.closes[j].mint)
          /\ Has(active_positions, last_cycle.scans[k].mint)
          /\ Get(active_positions, last_cycle.scans[k].mint).entry_time = now
          /\ last_cycle.closes[j].mint \notin last_cycle.scans[k].open

\* the profile of a mode
ProfileOf(enabled) == IF enabled THEN TURBO_SETTINGS ELSE NORMAL_SETTINGS

\* C24  Profile switching is wholesale: every apply_turbo_mode(enabled) call,
\* whatever config held before and whatever switches came earlier, leaves
\* config equal to TURBO_SETTINGS when enabled and to NORMAL_SETTINGS when
\* not, key for key, and the module's names bound to the same values; in a
\* step that is not a switch config stays one of the two profiles, never a
\* mixture; so disabling after enabling gives back every normal value.
C24_SwitchStep ==
    /\ turbo_mode' # turbo_mode =>
          /\ DOMAIN config' = DOMAIN ProfileOf(turbo_mode')
          /\ \A k \in DOMAIN config' : config'[k] = ProfileOf(turbo_mode')[k]
          /\ \A k \in DOMAIN ProfileOf(turbo_mode') :
                module_globals'[k] = ProfileOf(turbo_mode')[k]
    /\ config' \in {NORMAL_SETTINGS, TURBO_SETTINGS}

C24_WholesaleSwitch == [][C24_SwitchStep]_vars

\* C24 witness: the last switch disabled turbo mode, after an earlier one had
\* enabled it, and both config and the module's names hold the normal values
\* they had at the start.
C24_Witness ==
    /\ last_call.op = "apply_turbo_mode"
    /\ ~last_call.returned
    /\ ~turbo_mode
    /\ presses = 2
    /\ config = NORMAL_SETTINGS
    /\ module_globals = IMPORTED_SETTINGS

\* C25  Trailing stop ratchets only upward: an evaluation of a position whose
\* trailing stop is armed never leaves the position with a lower
\* trailing_stop than it had; a new higher peak raises it or leaves it.
C25_RatchetStep ==
    CycleRan =>
        \A i \in DOMAIN last_cycle'.evals :
            LET e == last_cycle'.evals[i]
            IN  e.before.trailing_stop > 0 =>
                    e.after.trailing_stop >= e.before.trailing_stop

C25_TrailingStopRatchet == [][C25_RatchetStep]_vars

\* C26  P&L is recomputed at close: the pnl that a close_position call writes
\* into the trade record and adds to daily_pnl, and the pnl part of its
\* equity credit, is the P&L of lines 210-221 computed from the position's
\* current_price at the time of the call, whatever pnl the caller passed.
C26_RecomputeStep ==
    (last_call' # last_call /\ last_call'.op = "close_position" /\ ~last_call'.raised) =>
        LET position == Get(active_positions, last_call'.mint)
            pnl == exit_pnl(position, position.current_price)
            position_size == IF position.partial_sold
                             THEN Frac(position.position_size, 6, 10)
                             ELSE position.position_size
        IN  /\ trades'[Len(trades')].pnl = pnl
            /\ daily_pnl' = daily_pnl + pnl
            /\ equity' = equity + position_size + pnl

C26_PnlRecomputedAtClose == [][C26_RecomputeStep]_vars

\* the evaluation that appended prices[k] saw less than 0.3% between the
\* highest and the lowest of the (up to) five latest prices, relative to
\* prices[k]
LowVariance(prices, k) ==
    LET window == LastN(SubSeq(prices, 1, k), 5)
    IN  /\ Len(window) > 1
        /\ (SeqMax(window) - SeqMin(window)) * 1000 < 3 * prices[k]

\* the prices recorded for the position under m once the price of the
\* evaluation e is appended
HistoryWith(e) ==
    IF e.mint \in DOMAIN price_history
    THEN Append(price_history[e.mint], e.price)
    ELSE <<>>

\* the evaluation got as far as the stagnation rule (line 245)
ReachedStagnationRule(e) ==
    e.reason \notin {"QUICK_SCALP", "SCALP_TIMEOUT", "PARTIAL_8%"}

\* C27  Stagnation exit: an evaluation returns NO_CHANGE only if the price
\* window is below 0.3% relative variance on this evaluation and the
\* position's consecutive_no_change_periods, counted up by this evaluation,
\* has reached N (2 in turbo mode, 3 otherwise); then the last N recorded
\* prices of the position were each appended by a low-variance evaluation,
\* with no high-variance evaluation in between.  An evaluation that reaches
\* the stagnation rule with a window of 0.3% or more leaves the counter at 0,
\* and one with a lower variance that does not close counts it up by one.
C27_StagnationStep ==
    CycleRan =>
        \A i \in DOMAIN last_cycle'.evals :
            LET e == last_cycle'.evals[i]
                prices == HistoryWith(e)
                N == IF turbo_mode THEN 2 ELSE 3
                rule == ReachedStagnationRule(e) /\ Len(prices) > 1
            IN  /\ e.reason = "NO_CHANGE" =>
                      /\ e.should_exit
                      /\ Len(prices) >= N + 1
                      /\ \A j \in 0..(N - 1) : LowVariance(prices, Len(prices) - j)
                      /\ e.after.consecutive_no_change_periods
                            = e.before.consecutive_no_change_periods + 1
                      /\ e.after.consecutive_no_change_periods >= N
                /\ (rule /\ ~LowVariance(prices, Len(prices))) =>
                      e.after.consecutive_no_change_periods = 0
                /\ (rule /\ LowVariance(prices, Len(prices)) /\ e.reason # "NO_CHANGE") =>
                      /\ e.after.consecutive_no_change_periods
                            = e.before.consecutive_no_change_periods + 1
                      /\ e.after.consecutive_no_change_periods < N
                /\ ~rule => e.after.consecutive_no_change_periods
                              = e.before.consecutive_no_change_periods

FourFalling(prices) ==
    /\ Len(prices) >= 4
    /\ \A k \in (Len(prices) - 2)..Len(prices) : prices[k] < prices[k - 1]

\* C28  Momentum reversal only if profitable: an evaluation returns
\* MOMENTUM_REVERSAL only when the pnl it returns with the verdict is
\* positive and the last four recorded prices of the position, the price of
\* this evaluation included, are strictly decreasing.
C28_ReversalStep ==
    CycleRan =>
        \A i \in DOMAIN last_cycle'.evals :
            LET e == last_cycle'.evals[i]
            IN  e.reason = "MOMENTUM_REVERSAL" =>
                    /\ e.pnl > 0
                    /\ FourFalling(HistoryWith(e))

C28_ReversalOnlyInProfit == [][C28_ReversalStep]_vars

\* the sum of the field f over the records of a log
RECURSIVE SumField(_, _)
SumField(log, f) == IF log = <<>> THEN 0 ELSE Head(log)[f] + SumField(Tail(log), f)

\* C29  Realized P&L moves only at sale events: in a cycle, an evaluation
\* that returns HOLDING or a full close leaves equity and daily_pnl as they
\* were; the evaluation that makes the partial sale credits equity with 40%
\* of the position size plus the partial pnl and adds that pnl to daily_pnl,
\* the position staying open; and what the cycle as a whole does to
\* daily_pnl is the sum of what its partial sales and its close_position
\* calls did (and to equity, that sum less what its entries debited), so that
\* update_all_prices changed neither.
C29_SaleEventsStep ==
    CycleRan =>
        LET evals == last_cycle'.evals
            closes == last_cycle'.closes
            scans == last_cycle'.scans
        IN  /\ \A i \in DOMAIN evals :
                  IF evals[i].reason = "PARTIAL_8%"
                  THEN /\ ~evals[i].should_exit
                       /\ evals[i].realized = evals[i].pnl
                       /\ evals[i].realized > 0
                       /\ evals[i].credit
                             = Frac(evals[i].before.position_size, 4, 10) + evals[i].pnl
                       /\ ~evals[i].before.partial_sold
                       /\ evals[i].after.partial_sold
                  ELSE /\ evals[i].credit = 0
                       /\ evals[i].realized = 0
            /\ daily_pnl' - daily_pnl
                  = SumField(evals, "realized") + SumField(closes, "realized")
            /\ equity' - equity
                  = SumField(evals, "credit") + SumField(closes, "credit")
                      - SumField(scans, "debit")

C29_PnlOnlyAtSaleEvents == [][C29_SaleEventsStep]_vars

\* C29 witness: the last cycle refreshed the prices, made the partial sale of
\* one position, which is still open, and evaluated another position to a
\* full close at a P&L that is not zero, without that evaluation touching
\* equity or daily_pnl.
C29_Witness ==
    /\ last_cycle.ran
    /\ last_price_update = now
    /\ \E i, j \in DOMAIN last_cycle.evals :
          /\ last_cycle.evals[i].reason = "PARTIAL_8%"
          /\ last_cycle.evals[i].credit > 0
          /\ Has(active_positions, last_cycle.evals[i].mint)
          /\ last_cycle.evals[j].should_exit
          /\ last_cycle.evals[j].pnl # 0
          /\ last_cycle.evals[j].credit = 0
          /\ last_cycle.evals[j].realized = 0
          /\ last_cycle.evals[j].before.current_price
                # Get(last_cycle.closes, last_cycle.evals[j].mint).position.current_price

\* how many of the most recent trades of the log, counted back from the
\* last one without a gap, have pnl > 0 (won) or have pnl <= 0 (not won)
RECURSIVE TrailingRun(_, _)
TrailingRun(log, won) ==
    IF log = <<>> \/ (log[Len(log)].pnl > 0) # won THEN 0
    ELSE 1 + TrailingRun(SubSeq(log, 1, Len(log) - 1), won)

\* C30  Streak counters track the trailing run: in every state at most one
\* of win_streak and loss_streak is non-zero; win_streak is the number of
\* the most recent consecutive closed trades with pnl > 0 and loss_streak
\* that of the most recent consecutive closed trades with pnl <= 0;
\* best_trade is the largest pnl of the log or 0 if none is positive, and
\* worst_trade the smallest pnl or 0 if none is negative.
C30_StreaksTrackTrailingRun ==
    /\ win_streak = 0 \/ loss_streak = 0
    /\ win_streak = TrailingRun(trades, TRUE)
    /\ loss_streak = TrailingRun(trades, FALSE)
    /\ best_trade = SetMax({0} \cup {trades[i].pnl : i \in DOMAIN trades})
    /\ 0 - worst_trade = SetMax({0} \cup {0 - trades[i].pnl : i \in DOMAIN trades})

\* C30 witness: a winning trade was followed by a losing one: the win streak
\* is back at 0, the loss streak is 1, best_trade is the pnl of the win and
\* worst_trade that of the loss.
C30_Witness ==
    /\ Len(trades) >= 2
    /\ trades[Len(trades) - 1].pnl > 0
    /\ trades[Len(trades)].pnl < 0
    /\ win_streak = 0
    /\ loss_streak = 1
    /\ best_trade = trades[Len(trades) - 1].pnl
    /\ worst_trade = trades[Len(trades)].pnl

\* the capital still committed to a position: its size, or 60% of it once
\* the partial sale was made
Committed(position) ==
    IF position.partial_sold THEN Frac(position.position_size, 6, 10)
    ELSE position.position_size

RECURSIVE CommittedCapital(_)
CommittedCapital(positions) ==
    IF positions = <<>> THEN 0
    ELSE Committed(Head(positions)) + CommittedCapital(Tail(positions))

\* C31  Capital conservation: in every state reached by trading cycles (and
\* the dashboard's buttons), equity = starting_equity + daily_pnl - the sum
\* over the open positions of the capital still committed, position_size for
\* a position not partially sold and 0.6 * position_size for one that is.
C31_CapitalConservation ==
    equity = Usd(1000) + daily_pnl - CommittedCapital(active_positions)

\* C31 witness: a position is open after its partial sale (60% of its size
\* still committed), another position was closed after its partial sale, and
\* daily_pnl is not zero.
C31_Witness ==
    /\ \E i \in DOMAIN active_positions : active_positions[i].partial_sold
    /\ \E k \in DOMAIN trades : trades[k].partial_sold
    /\ daily_pnl # 0
    /\ equity # Usd(1000)

\* the mints under which the step leaves a position that was not there
\* before (no position, or one entered earlier)
OpenedInStep ==
    {m \in Keys(active_positions') :
        \/ m \notin Keys(active_positions)
        \/ Get(active_positions', m).entry_time # Get(active_positions, m).entry_time}

\* C32  Position count conservation: after every step (a trading cycle or a
\* button, RESET BOT included) tokens_bought equals the number of open
\* positions plus the number of closed trade records; every position the
\* step opens is counted in tokens_bought, and every position that
\* disappears in the step leaves a trade record in the log.
C32_CountStep ==
    /\ tokens_bought' = Len(active_positions') + Len(trades')
    /\ OpenedInStep # {} => tokens_bought' - tokens_bought = Cardinality(OpenedInStep)
    /\ \A m \in Keys(active_positions) :
          Destroyed(m) => \E k \in DOMAIN trades' : trades'[k].mint_address = m

C32_PositionCountConservation == [][C32_CountStep]_vars

\* a position is open whose hold time has reached MAX_TRADE_DURATION
Overdue ==
    \E i \in DOMAIN active_positions :
        now - active_positions[i].entry_time >= MAX_TRADE_DURATION

\* the bot is cycling: started, and the daily loss limit not hit
Cycling == bot_running /\ daily_pnl > MAX_DAILY_LOSS

\* the run is followed for three more clock units at least
TimeLeft == now + 3 <= LongWait + Horizon

\* an evaluation made at a hold time of MAX_TRADE_DURATION or more returns a
\* full close, unless it is the one that makes the partial sale; the cycle
\* closes the position on a full close
C33_TimeoutStep ==
    CycleRan =>
        \A i \in DOMAIN last_cycle'.evals :
            LET e == last_cycle'.evals[i]
            IN  e.time_held >= MAX_TRADE_DURATION =>
                    \/ /\ e.should_exit
                       /\ Destroyed(e.mint)
                    \/ /\ e.reason = "PARTIAL_8%"
                       /\ ~e.before.partial_sold
                       /\ e.after.partial_sold

\* C33  Timeout guarantees closure: a position whose hold time has reached
\* MAX_TRADE_DURATION gets a full-close verdict from its next evaluation, or
\* from the one after it when the first makes the one-time partial sale; and
\* while the bot keeps cycling, a state with such a position open leads to a
\* state where no position that old is open (or the bot has stopped cycling).
C33_TimeoutClosure ==
    /\ [][C33_TimeoutStep]_vars
    /\ (Overdue /\ Cycling /\ TimeLeft) ~> (~Overdue \/ ~Cycling)

\* C33 witness: the last cycle evaluated a position past MAX_TRADE_DURATION
\* and the evaluation was consumed by the partial sale, so the position is
\* still open, overdue, with the bot cycling and time left for the next
\* evaluation.
C33_Witness ==
    /\ Overdue /\ Cycling /\ TimeLeft
    /\ \E i \in DOMAIN last_cycle.evals :
          /\ last_cycle.evals[i].time_held >= MAX_TRADE_DURATION
          /\ last_cycle.evals[i].reason = "PARTIAL_8%"
          /\ Has(active_positions, last_cycle.evals[i].mint)
          /\ now - Get(active_positions, last_cycle.evals[i].mint).entry_time
                >= MAX_TRADE_DURATION

\* C36  Hard take-profit follows the partial close: every trade closed with
\* TAKE_PROFIT_20% has partial_sold set, and every evaluation of the last
\* cycle that returned TAKE_PROFIT_20% was of a position already partially
\* sold; a never-partially-sold position is never closed by it.
C36_TakeProfitAfterPartial ==
    /\ \A k \in DOMAIN trades :
          trades[k].exit_reason = "TAKE_PROFIT_20%" => trades[k].partial_sold
    /\ \A i \in DOMAIN last_cycle.evals :
          last_cycle.evals[i].reason = "TAKE_PROFIT_20%" =>
              last_cycle.evals[i].before.partial_sold

\* C36 witness: the last cycle closed a partially sold position with
\* TAKE_PROFIT_20% and its trade record is in the log.
C36_Witness ==
    /\ \E i \in DOMAIN last_cycle.evals :
          /\ last_cycle.evals[i].reason = "TAKE_PROFIT_20%"
          /\ last_cycle.evals[i].should_exit
          /\ last_cycle.evals[i].before.partial_sold
    /\ \E k \in DOMAIN trades :
          trades[k].exit_reason = "TAKE_PROFIT_20%" /\ trades[k].partial_sold

\* an evaluation of the last cycle, of a position opened as a quick scalp, at
\* a percent change of 5 or more
ScalpEvalsAtTarget(cycle) ==
    {i \in DOMAIN cycle.evals :
        /\ cycle.evals[i].before.is_quick_scalp
        /\ PctGE(cycle.evals[i].price, cycle.evals[i].before.entry_price, 5)}

\* C37  Quick-scalp positions exit whole: every evaluation of a position
\* opened as a quick scalp at a percent change of 5 or more returns a full
\* close with reason QUICK_SCALP, and no such position is partially sold or
\* closed with TAKE_PROFIT_20% or TRAILING_STOP.
C37_QuickScalpExitsWhole ==
    /\ \A i \in ScalpEvalsAtTarget(last_cycle) :
          /\ last_cycle.evals[i].should_exit
          /\ last_cycle.evals[i].reason = "QUICK_SCALP"
    /\ \A i \in DOMAIN active_positions :
          active_positions[i].is_quick_scalp => ~active_positions[i].partial_sold
    /\ \A k \in DOMAIN trades :
          trades[k].is_quick_scalp =>
              /\ ~trades[k].partial_sold
              /\ trades[k].exit_reason \notin {"TAKE_PROFIT_20%", "TRAILING_STOP"}

\* C37 while the engine that opened the position is still the one evaluating
\* it (the mint is still in quick_scalp_targets), the evaluation at 5% or
\* more does return QUICK_SCALP
C37_RegisteredScalpExitsWhole ==
    \A i \in ScalpEvalsAtTarget(last_cycle) :
        last_cycle.evals[i].scalp =>
            /\ last_cycle.evals[i].should_exit
            /\ last_cycle.evals[i].reason = "QUICK_SCALP"

\* every open position's highest_price is at least its current_price and its
\* entry_price
PeakBounds ==
    \A i \in DOMAIN active_positions :
        /\ active_positions[i].highest_price >= active_positions[i].current_price
        /\ active_positions[i].highest_price >= active_positions[i].entry_price

\* a position that stays open through the step keeps or raises highest_price
PeakStep ==
    \A m \in Keys(active_positions) :
        ~Destroyed(m) =>
            Get(active_positions', m).highest_price >= Get(active_positions, m).highest_price

\* C38  Peak bounds: in every reachable state every open position has
\* highest_price >= current_price and highest_price >= entry_price, and no
\* step (evaluation by check_exit_conditions, refresh by update_all_prices,
\* or anything else) lowers the highest_price of a position that stays open.
C38_PeakBounds == []PeakBounds /\ [][PeakStep]_vars

\* C38 witness: a position whose price was raised above entry by a refresh or
\* an evaluation and has since fallen back: the peak is above both the entry
\* price and the current price.
C38_Witness ==
    \E i \in DOMAIN active_positions :
        /\ active_positions[i].highest_price > active_positions[i].entry_price
        /\ active_positions[i].highest_price > active_positions[i].current_price
        /\ active_positions[i].mint \in DOMAIN observed
        /\ observed[active_positions[i].mint].refreshed # {}

\* a cycle that runs finds the engine's config equal to the profile of the
\* turbo_mode flag, and every token it scans is filtered under that profile
C39_ProfileStep ==
    CycleRan =>
        /\ config = ProfileOf(turbo_mode)
        /\ \A k \in DOMAIN last_cycle'.scans :
              last_cycle'.scans[k].profile = ProfileOf(turbo_mode)

\* C39  Profile flag and engine config agree: whenever run_trading_cycle
\* executes with turbo_mode True the engine's config is the turbo profile, and
\* with turbo_mode False the normal profile, so the entry thresholds never
\* contradict the flag that selects the stagnation tick count.
C39_ProfileFlagAgrees == [][C39_ProfileStep]_vars

\* no price window holds more than 20 prices
WindowBounded == \A m \in DOMAIN price_history : Len(price_history[m]) <= 20

\* the engine's two dicts hold entries of open positions only
BookkeepingScoped ==
    /\ DOMAIN price_history \subseteq Keys(active_positions)
    /\ DOMAIN quick_scalp_targets \subseteq Keys(active_positions)

\* the step replaces the engine by a new one (its dicts are emptied while the
\* positions stay as they are)
Rebuilt ==
    /\ price_history' = Empty
    /\ quick_scalp_targets' = Empty
    /\ active_positions' = active_positions

\* a position the step opens gets a price-history entry; within one engine
\* the entry stays as long as the position; a position the step closes
\* leaves no entry in either dict
C40_BookkeepingStep ==
    /\ \A m \in OpenedInStep : m \in DOMAIN price_history'
    /\ \A m \in Keys(active_positions) :
          /\ (m \in DOMAIN price_history /\ m \in Keys(active_positions') /\ ~Rebuilt)
                => m \in DOMAIN price_history'
          /\ m \notin Keys(active_positions')
                => /\ m \notin DOMAIN price_history'
                   /\ m \notin DOMAIN quick_scalp_targets'

\* C40  Per-position bookkeeping is bounded and scoped: over the calls made
\* on the engine, no price window ever holds more than 20 prices, every
\* position enter_position opens has a price-history entry for as long as the
\* engine and the position live, close_position removes the mint's entries
\* from price_history and quick_scalp_targets, and neither dict ever holds a
\* mint that has no open position.
C40_BookkeepingBoundedScoped ==
    /\ [](WindowBounded /\ BookkeepingScoped)
    /\ [][C40_BookkeepingStep]_vars

\* C40 witness: a quick-scalp position was evaluated so often that its
\* window is full and the entry price has dropped out of it, and the mint is
\* still registered in both dicts.
C40_Witness ==
    \E i \in DOMAIN active_positions :
        LET m == active_positions[i].mint
        IN  /\ last_call.op = "check_exit_conditions"
            /\ m \in DOMAIN price_history
            /\ m \in DOMAIN quick_scalp_targets
            /\ Len(price_history[m]) = 20
            /\ price_history[m][1] # active_positions[i].entry_price

\* the tokens of the listing handed to the last cycle that the scan passed
\* over at line 450: no decision was made on them
PassedOver(listing) ==
    {i \in DOMAIN listing :
        \A k \in DOMAIN last_cycle.scans : last_cycle.scans[k].mint # listing[i].mint}

\* C35  No overspending: every position the scan of run_trading_cycle opens
\* is opened with equity at least the position's size, the position's size is
\* what the open takes from equity, and so equity is not negative right after
\* the open, however many positions the cycle opens.
C35_NoOverspending ==
    \A k \in DOMAIN last_cycle.scans :
        last_cycle.scans[k].entered =>
            /\ last_cycle.scans[k].equity >= last_cycle.scans[k].size
            /\ last_cycle.scans[k].debit = last_cycle.scans[k].size
            /\ last_cycle.scans[k].equity - last_cycle.scans[k].debit >= 0

\* C35 witness: the last cycle opened several positions, passed over a listed
\* token whose size was more than the equity left, and then opened a smaller
\* position that the equity left did cover.
C35_Witness ==
    /\ last_cycle.ran
    /\ \E i \in PassedOver(Listing(now)), k \in DOMAIN last_cycle.scans :
          /\ last_cycle.scans[k].entered
          /\ k > 1
          /\ calculate_position_size(Listing(now)[i]) > last_cycle.scans[k].equity
          /\ last_cycle.scans[k].equity >= BASE_POSITION_SIZE
          /\ equity >= 0
          /\ equity < BASE_POSITION_SIZE

\* the scan opens a position only with fewer positions open than the cap of
\* the engine's config, and a step that opens positions ends within that cap
C34_CapStep ==
    /\ CycleRan =>
          \A k \in DOMAIN last_cycle'.scans :
              last_cycle'.scans[k].entered =>
                  Cardinality(last_cycle'.scans[k].open) < config.MAX_CONCURRENT_POSITIONS
    /\ OpenedInStep # {} =>
          Len(active_positions') <= config'.MAX_CONCURRENT_POSITIONS

====
